---- MODULE Spec2Model ----
(***************************************************************************)
(* gesture-universe: the capture -> recognizer -> UI pipeline over bounded *)
(* crossbeam channels, and the frame preprocessing that guards it.         *)
(*                                                                         *)
(* The repository carries two revisions of the same pipeline side by side: *)
(*   "legacy"   src/src/camera.rs, src/src/recognizer/{mod,ort,common}.rs, *)
(*              src/src/ui.rs, src/src/main.rs                             *)
(*   "pipeline" src/src/pipeline/camera.rs,                                *)
(*              src/src/pipeline/recognizer/{ort,common}.rs, src/src/ui/   *)
(* The worker loop (run_worker_loop, recv_latest_frame) is taken from      *)
(* src/src/recognizer/mod.rs; both engines are driven through it.          *)
(* `revision` is fixed at start-up and selects capture loop and engine.    *)
(***************************************************************************)
EXTENDS Integers, Sequences, FiniteSets, TLC

\* ---------------------------------------------------------------- bounds
MaxFrames == 3      \* frames the camera delivers in one run
MaxStreams == 1     \* camera streams the UI gets started in one run
MaxDim == 2         \* frame width/height range of the preprocessing check
MaxSlack == 2       \* how far a buffer length strays from width*height*4
MaxLoads == 2       \* cap of the engine-load history counter
MaxCalls == 4       \* classifier calls in one run of the gesture check
MaxAnchors == 2     \* anchors in the palm detector output
MaxTopK == 2        \* largest top_k of the palm detector configuration
MaxSwitches == 3    \* camera starts and switches asked of the camera view
MaxLabels == 2      \* labels that tell the frames of the refill check apart

\* ------------------------------------------------------ program constants
\* main.rs: bounded(1) for frame_to_ui, frame_to_rec and result
FrameQueueCapTwo == 1 + 1
FrameQueueCap == 1
ResultQueueCapTwo == 1 + 1
ResultQueueCap == 1
UiQueueCap == 1

Revisions == {"legacy", "pipeline"}
NoFrame == [id |-> 0, w |-> 0, h |-> 0, len |-> 0]
NoResult == [frame |-> 0, confidence |-> 0]
FrameIds == 1..MaxFrames
StreamIds == 1..MaxStreams

VARIABLES
    revision,       \* which of the two revisions is running
    frameQ,         \* capture -> recognizer channel (frame_to_rec)
    uiQ,            \* capture -> UI channel (frame_to_ui, legacy only)
    resultQ,        \* recognizer -> UI channel (result)
    frameTxAlive,   \* AppView still owns its Sender<Frame>
    nextId,         \* id of the next frame the camera delivers
    uiPc,           \* UI thread: "idle" | "join" | "drop" | "start"
    cameraStream,   \* AppView.camera_stream: 0 (None) or a stream id
    nStreams,       \* streams started so far
    recognizerHandle, \* AppView.recognizer_handle.is_some()
    latestResult,   \* AppView.latest_result
    capPc,          \* per stream: position of its capture thread
    stopFlag,       \* per stream: CameraStream.stop
    capFrame,       \* per stream: the frame local of the capture loop
    capRecog,       \* per stream: recog_frame.is_some() (legacy throttle)
    wPc,            \* recognizer worker position
    wFrame,         \* recv_latest_frame's `frame` local / loop's `frame`
    wOutput,        \* Ok(output) of engine.infer waiting to be sent
    startup,        \* worker start-up log: engine loads tried, failure seen
    \* ---- history (ghost) variables used to state the properties
    fate,           \* per frame id: what became of the frame
    sawQueued,      \* per frame id: id at the head of frameQ when offered
    srcStream,      \* per frame id: stream whose thread offered it
    resFate,        \* per frame id: what became of its result
    resSaw,         \* per frame id: frame of the result queued when offered
    callDequeued,   \* ids dequeued by the current recv_latest_frame call
    stopReturned,   \* streams whose CameraStream::stop has returned
    stopping,       \* stream taken out of camera_stream by stop_camera_stream
    prep,           \* preprocessing check: input frame and outcomes
    gest,           \* gesture classifier: motion window and last call
    palm,           \* palm detector: one decode_palm_outputs call
    pose,           \* landmark stage: optional outputs of one inference
    xf,             \* rotated crop: one sampled and projected position
    boot,           \* worker start-up: model files and downloads
    cam,            \* camera view: streams started, stopped and selected
    live            \* capture against the drain loop, frames unnumbered

vars == <<revision, frameQ, uiQ, resultQ, frameTxAlive, nextId, uiPc,
          cameraStream, nStreams, recognizerHandle, latestResult, capPc,
          stopFlag, capFrame, capRecog, wPc, wFrame, wOutput, startup,
          fate, sawQueued, srcStream, resFate, resSaw, callDequeued,
          stopReturned, stopping, prep, gest, palm,
                   pose, xf, boot, cam, live>>

pipeVars == <<revision, frameQ, uiQ, resultQ, frameTxAlive, nextId, uiPc,
              cameraStream, nStreams, recognizerHandle, latestResult, capPc,
              stopFlag, capFrame, capRecog, wPc, wFrame, wOutput,
              startup, fate, sawQueued, srcStream, resFate, resSaw,
              callDequeued, stopReturned, stopping>>

\* ------------------------------------------------------------- channels
\* crossbeam_channel::Sender::try_send on a bounded channel: the message is
\* enqueued when there is room and a receiver is alive; otherwise it is
\* handed back in the Err (Full / Disconnected) and the queue is untouched.
TrySendOverwrite(q, x, cap, rxAlive) ==
    IF ~rxAlive THEN q
    ELSE IF Len(q) < cap THEN Append(q, x)
    ELSE Append(SubSeq(q, 2, Len(q)), x)

TrySendUnbounded(q, x, cap, rxAlive) ==
    IF rxAlive THEN Append(q, x) ELSE q

TrySend(q, x, cap, rxAlive) ==
    IF rxAlive /\ Len(q) < cap THEN Append(q, x) ELSE q

\* The Receiver<Frame> lives in AppView until the worker takes it, and is
\* dropped when the worker thread returns.
FrameRxAlive == wPc # "done"

\* The Receiver<GestureResult> stays in AppView for the whole run.
ResultRxAlive == TRUE

\* ------------------------------------------------------- preprocessing
\* (frame.width as usize).saturating_mul(height).saturating_mul(4); the
\* saturation point (usize::MAX) is far outside the modelled sizes.
ExpectedLen(w, h) == w * h * 4

\* Outcome of a preprocessing call: ok, the number of buffer bytes the
\* produced image is made of, and whether any pixel was read.
PrepErr == [ok |-> FALSE, used |-> 0, read |-> FALSE]
PrepOk(n) == [ok |-> TRUE, used |-> n, read |-> TRUE]

\* pipeline/recognizer/common.rs: exact length check, then resize + pad.
PrepareFrameWithSize(f) ==
    IF f.len # ExpectedLen(f.w, f.h) THEN PrepErr
    ELSE PrepOk(ExpectedLen(f.w, f.h))

\* pipeline/recognizer/common.rs: exact length check, then bilinear sampling
\* (sample_rgb bounds-checks every fetch).
PrepareRotatedCrop(f) ==
    IF f.len # ExpectedLen(f.w, f.h) THEN PrepErr
    ELSE PrepOk(ExpectedLen(f.w, f.h))

\* recognizer/common.rs: RgbaImage::from_raw(width, height, buf) is None only
\* when the buffer is too SMALL for width*height*4 bytes; a larger buffer is
\* accepted and the image is built from its first width*height*4 bytes.
PrepareFrame(f) ==
    IF f.len < ExpectedLen(f.w, f.h) THEN PrepErr
    ELSE PrepOk(ExpectedLen(f.w, f.h))

\* --------------------------------------------------------------- engines
\* What the external parts of one engine.infer call do: the palm detector
\* session, the landmark session, and the confidence the network reports
\* for a hand it has found (in tenths; 0 is what the no-region path of the
\* pipeline engine reports).
ConfChoices == {5}
ExtChoices ==
    [detect : {"err", "empty", "found"}, run : {"err", "ok"},
     conf : ConfChoices]

InferErr == [ok |-> FALSE, confidence |-> 0, landmarkRun |-> FALSE]
InferOk(c, ran) == [ok |-> TRUE, confidence |-> c, landmarkRun |-> ran]

\* recognizer/ort.rs OrtEngine::infer: prepare_frame(frame)?, session.run,
\* decode_landmarks; every failure is returned to the worker loop.
InferLegacy(f, ext) ==
    IF ~PrepareFrame(f).ok THEN InferErr
    ELSE IF ext.run = "err" THEN InferErr
    ELSE InferOk(ext.conf, TRUE)

\* pipeline/recognizer/ort.rs OrtEngine::infer: palm_detector.detect(frame)
\* (which starts with prepare_frame_with_size(frame, PALM_INPUT_SIZE)?) has
\* its error replaced by an empty region list; an empty list returns
\* Ok(confidence 0.0) without running the landmark network.
PalmRegions(f, ext) ==
    IF ~PrepareFrameWithSize(f).ok \/ ext.detect = "err" THEN "empty"
    ELSE ext.detect

InferPipeline(f, ext) ==
    IF PalmRegions(f, ext) = "empty" THEN InferOk(0, FALSE)
    ELSE IF ~PrepareRotatedCrop(f).ok THEN InferErr
    ELSE IF ext.run = "err" THEN InferErr
    ELSE InferOk(ext.conf, TRUE)

Infer(rev, f, ext) ==
    IF rev = "legacy" THEN InferLegacy(f, ext) ELSE InferPipeline(f, ext)

\* ---------------------------------------------------------------- frames
\* Buffers the capture loop can hand over.  camera.rs expands the decoded
\* RGB image itself, so its buffer always has width*height*4 bytes.
\* pipeline/camera.rs takes width/height from the negotiated resolution and
\* the bytes from rgba_converter, whose MJPEG path returns whatever size the
\* JPEG decodes to; the buffer can be shorter or longer than width*height*4.
CameraDims == {<<1, 1>>}
CameraLens(rev, w, h) ==
    IF rev = "legacy" THEN {ExpectedLen(w, h)}
    ELSE {ExpectedLen(w, h) - 1, ExpectedLen(w, h), ExpectedLen(w, h) + 1}

HeadId(q) == IF q = <<>> THEN 0 ELSE Head(q).id

\* ------------------------------------------------------ gesture classifier
\* gesture.rs.  Confidences are in tenths, time is in ticks of 0.4 s, pixel
\* coordinates and spans are whole numbers.
MIN_CONFIDENCE == 2
MOTION_WINDOW == 3

Max2(a, b) == IF a >= b THEN a ELSE b
Min2(a, b) == IF a <= b THEN a ELSE b
Abs(a) == IF a >= 0 THEN a ELSE 0 - a

\* Instant::duration_since saturates to zero when `earlier` is later.
DurationSince(now, earlier) == IF now >= earlier THEN now - earlier ELSE 0

\* MotionTracker::update, the eviction loop: pop the front sample while it
\* is more than MOTION_WINDOW older than `now`.
RECURSIVE EvictAtBoundary(_, _)
EvictAtBoundary(h, now) ==
    IF h = <<>> THEN h
    ELSE IF DurationSince(now, Head(h).time) >= MOTION_WINDOW
         THEN EvictAtBoundary(Tail(h), now)
    ELSE h

RECURSIVE Evict(_, _)
Evict(h, now) ==
    IF h = <<>> THEN h
    ELSE IF DurationSince(now, Head(h).time) > MOTION_WINDOW
         THEN Evict(Tail(h), now)
    ELSE h

\* MotionTracker::update, first half: push_back(MotionSample { .. span:
\* span.max(1.0) }) and the eviction loop.
PushSample(h, point, span, now) ==
    Evict(Append(h, [time |-> now, x |-> point[1], y |-> point[2],
                     span |-> Max2(span, 1)]),
          now)

\* if self.history.len() < 3 { return GestureMotion::Steady; }
TooFewSamplesTwo(h) == Len(h) < 2

TooFewSamples(h) == Len(h) < 3

RECURSIVE SumSpan(_)
SumSpan(h) == IF h = <<>> THEN 0 ELSE Head(h).span + SumSpan(Tail(h))

RECURSIVE SeqMax(_)
SeqMax(q) == IF Len(q) = 1 THEN q[1] ELSE Max2(Head(q), SeqMax(Tail(q)))

RECURSIVE SeqMin(_)
SeqMin(q) == IF Len(q) = 1 THEN q[1] ELSE Min2(Head(q), SeqMin(Tail(q)))

\* direction_changes(samples, select, min_step) with min_step = norm * 0.08
\* and norm = num / den: |delta| < min_step  <=>  |delta|*100*den < 8*num.
\* `q` holds the selected coordinate of every sample.
RECURSIVE DirectionChangesFrom(_, _, _, _, _)
DirectionChangesFrom(q, i, lastSign, num, den) ==
    IF i >= Len(q) THEN 0
    ELSE LET delta == q[i + 1] - q[i] IN
         IF Abs(delta) * 100 * den < 8 * num
         THEN DirectionChangesFrom(q, i + 1, lastSign, num, den)
         ELSE LET sign == IF delta > 0 THEN 1 ELSE -1 IN
              (IF lastSign # 0 /\ sign # lastSign THEN 1 ELSE 0)
                + DirectionChangesFrom(q, i + 1, sign, num, den)

DirectionChanges(q, num, den) == DirectionChangesFrom(q, 1, 0, num, den)

\* is_open_palm = matches!(primary, Palm | Four | Unknown)
IsOpenPalmAlways(primary) == TRUE

IsOpenPalm(primary) == primary \in {"Palm", "Four", "Unknown"}

\* MotionTracker::update, second half.  norm = avg_span.max(1.0) is kept as
\* the fraction num/den; span_x > 0.55 <=> (max_x - min_x)*den*100 > 55*num.
Motion(h, primary) ==
    IF TooFewSamples(h) THEN "Steady"
    ELSE
      LET den == Len(h)
          num == Max2(SumSpan(h), den)
          xs == [i \in 1..Len(h) |-> h[i].x]
          ys == [i \in 1..Len(h) |-> h[i].y]
          spanX == (SeqMax(xs) - SeqMin(xs)) * den * 100
          spanY == (SeqMax(ys) - SeqMin(ys)) * den * 100
          isOpenPalm == IsOpenPalm(primary)
      IN  IF spanX > 55 * num /\ DirectionChanges(xs, num, den) >= 2
             /\ isOpenPalm
          THEN "Fanning"
          ELSE IF spanY > 55 * num /\ DirectionChanges(ys, num, den) >= 2
          THEN "VerticalWave"
          ELSE IF spanX > 25 * num \/ spanY > 25 * num THEN "Moving"
          ELSE "Steady"

\* GestureClassifier::classify: the two early returns.
ClassifyGatedNoConfidence(confidence, nRaw, nProjected) ==
    nRaw < 21 \/ nProjected < 21

ClassifyGated(confidence, nRaw, nProjected) ==
    \/ confidence < MIN_CONFIDENCE
    \/ nRaw < 21 \/ nProjected < 21

\* projected_span(points): the larger extent of the points, at least 1.0.
ProjectedSpan(extent) == Max2(extent, 1)

\* One call's inputs: the HandposeOutput part (confidence and landmark
\* counts) and what the landmarks amount to (wrist point, extent, and the
\* primary gesture the ONNX classifier names for them); the frame timestamp
\* comes with it.
GateChoices ==
    {[confidence |-> 1, nRaw |-> 21, nProjected |-> 21],
     [confidence |-> 1, nRaw |-> 20, nProjected |-> 20],
     [confidence |-> 2, nRaw |-> 21, nProjected |-> 21],
     [confidence |-> 2, nRaw |-> 20, nProjected |-> 21],
     [confidence |-> 2, nRaw |-> 21, nProjected |-> 20]}
HandChoices ==
    {[point |-> <<0, 0>>, extent |-> 0, primary |-> "Palm"],
     [point |-> <<1, 0>>, extent |-> 0, primary |-> "Palm"],
     [point |-> <<1, 0>>, extent |-> 0, primary |-> "Fist"],
     [point |-> <<0, 1>>, extent |-> 0, primary |-> "Palm"],
     [point |-> <<1, 0>>, extent |-> 4, primary |-> "Palm"]}
GestInput(gate, hand) ==
    [confidence |-> gate.confidence, nRaw |-> gate.nRaw,
     nProjected |-> gate.nProjected, hand |-> hand]

\* GestureClassifier::classify(raw, projected, confidence, handedness,
\* timestamp): None, or Some(detail) after motion_tracker.update.
Classify(h, in, timestamp) ==
    IF ClassifyGated(in.confidence, in.nRaw, in.nProjected)
    THEN [some |-> FALSE, motion |-> "none", history |-> h]
    ELSE LET h2 == PushSample(h, in.hand.point,
                              ProjectedSpan(in.hand.extent), timestamp)
         IN  [some |-> TRUE, motion |-> Motion(h2, in.hand.primary),
              history |-> h2]

\* build_gesture_result(output, frame, classifier)
HasDetectionAlways(confidence) == TRUE

HasDetection(confidence) == confidence >= 2

BuildGestureResult(h, in, timestamp) ==
    LET detail == IF HasDetection(in.confidence)
                  THEN Classify(h, in, timestamp)
                  ELSE [some |-> FALSE, motion |-> "none", history |-> h]
    IN  [confidence |-> in.confidence,
         landmarks |-> HasDetection(in.confidence),
         detail |-> detail.some, motion |-> detail.motion,
         history |-> detail.history]

\* No classifier call made yet.
NoCall ==
    [op |-> "none", confidence |-> 0, nRaw |-> 0, nProjected |-> 0,
     inferOk |-> FALSE, regions |-> "none", landmarkRun |-> FALSE,
     landmarks |-> FALSE, detail |-> FALSE, motion |-> "none",
     primary |-> "none"]
NoGest == [history |-> <<>>, calls |-> 0, clock |-> 0, last |-> NoCall]

\* ------------------------------------------------------------ palm detector
\* pipeline/recognizer/palm/mod.rs.  An f32 is a whole number or NaN; scores
\* and thresholds are in tenths.
F(v) == [nan |-> FALSE, v |-> v]
NaN == [nan |-> TRUE, v |-> 0]

FAdd(a, b) == IF a.nan \/ b.nan THEN NaN ELSE F(a.v + b.v)
FSub(a, b) == IF a.nan \/ b.nan THEN NaN ELSE F(a.v - b.v)
\* comparisons with NaN are false
FLe(a, b) == ~a.nan /\ ~b.nan /\ a.v <= b.v
FLt(a, b) == ~a.nan /\ ~b.nan /\ a.v < b.v
\* f32::max / f32::min return the other operand when one is NaN
FMax(a, b) == IF a.nan THEN b ELSE IF b.nan THEN a ELSE F(Max2(a.v, b.v))
FMin(a, b) == IF a.nan THEN b ELSE IF b.nan THEN a ELSE F(Min2(a.v, b.v))
\* f32::clamp keeps NaN
FClamp(x, lo, hi) ==
    IF x.nan THEN x ELSE F(Max2(lo, Min2(x.v, hi)))

\* PalmDetectorConfig::default().score_threshold
SCORE_THRESHOLD == 5

\* clamp_box(x1, y1, x2, y2, w, h); w.saturating_sub(1) is w - 1 for w >= 1
ClampBox(b, w, h) ==
    <<FClamp(b[1], 0, Max2(w - 1, 0)), FClamp(b[2], 0, Max2(h - 1, 0)),
      FClamp(b[3], 0, Max2(w - 1, 0)), FClamp(b[4], 0, Max2(h - 1, 0))>>

\* decode_palm_outputs, loop body: x1 = (cx - hw) * scale - pad_bias_x and
\* so on.  cx = anchor + delta / 192 and the half extents hw, hh are taken
\* in units of 1/scale, so the product with scale is the whole number
\* itself.
RawBox(a, padX, padY) ==
    <<FSub(FSub(a.cx, a.hw), F(padX)), FSub(FSub(a.cy, a.hh), F(padY)),
      FSub(FAdd(a.cx, a.hw), F(padX)), FSub(FAdd(a.cy, a.hh), F(padY))>>

\* if x2 <= x1 || y2 <= y1 { continue; }
Degenerate(b) == FLe(b[3], b[1]) \/ FLe(b[4], b[2])

\* One anchor: None when it is skipped (score below the threshold or box
\* degenerate), otherwise the PalmCandidate that is pushed.
DecodeAnchor(a, w, h, padX, padY) ==
    IF a.score < SCORE_THRESHOLD THEN <<>>
    ELSE IF Degenerate(RawBox(a, padX, padY)) THEN <<>>
    ELSE <<[bbox |-> ClampBox(RawBox(a, padX, padY), w, h),
            score |-> a.score]>>

\* iou(a, b) as the fraction num/den; (x2 - x1).max(0.0) turns NaN into 0.
PosPart(x) == FMax(x, F(0)).v

Iou(a, b) ==
    LET x1 == FMax(a[1], b[1])
        y1 == FMax(a[2], b[2])
        x2 == FMin(a[3], b[3])
        y2 == FMin(a[4], b[4])
        inter == PosPart(FSub(x2, x1)) * PosPart(FSub(y2, y1))
        areaA == PosPart(FSub(a[3], a[1])) * PosPart(FSub(a[4], a[2]))
        areaB == PosPart(FSub(b[3], b[1])) * PosPart(FSub(b[4], b[2]))
        union == areaA + areaB - inter
    IN  IF inter <= 0 THEN [num |-> 0, den |-> 1]
        ELSE IF union <= 0 THEN [num |-> 0, den |-> 1]
        ELSE [num |-> inter, den |-> union]

\* iou(..) >= threshold, threshold in tenths
IouAtLeast(a, b, threshold) ==
    Iou(a, b).num * 10 >= threshold * Iou(a, b).den

\* order.sort_by(|a, b| candidates[*b].score.partial_cmp(..)): a stable
\* sort of the indices by descending score.
RECURSIVE InsertByScore(_, _, _)
InsertByScore(order, idx, cands) ==
    IF order = <<>> THEN <<idx>>
    ELSE IF cands[Head(order)].score >= cands[idx].score
         THEN <<Head(order)>> \o InsertByScore(Tail(order), idx, cands)
    ELSE <<idx>> \o order

SortByIndex(n, cands) == [i \in 1..n |-> i]

RECURSIVE SortByScore(_, _)
SortByScore(n, cands) ==
    IF n = 0 THEN <<>>
    ELSE InsertByScore(SortByScore(n - 1, cands), n, cands)

\* nms, the loop over `order`: skip idx when it overlaps a kept box, else
\* push it and break once keep.len() >= top_k.
SuppressedNever(idx, keep, cands, threshold) == FALSE

Suppressed(idx, keep, cands, threshold) ==
    \E k \in 1..Len(keep) :
        IouAtLeast(cands[idx].bbox, cands[keep[k]].bbox, threshold)

RECURSIVE NmsLoop(_, _, _, _, _)
NmsLoop(order, keep, cands, threshold, topK) ==
    IF order = <<>> THEN keep
    ELSE IF Suppressed(Head(order), keep, cands, threshold)
         THEN NmsLoop(Tail(order), keep, cands, threshold, topK)
    ELSE IF Len(keep) + 1 >= topK THEN Append(keep, Head(order))
    ELSE NmsLoop(Tail(order), Append(keep, Head(order)), cands, threshold,
                 topK)

Nms(cands, threshold, topK) ==
    NmsLoop(SortByScore(Len(cands), cands), <<>>, cands, threshold, topK)

\* pick_primary_region: Iterator::max_by folds with
\* match compare(&x, &y) { Greater => x, _ => y }, so of equal maxima the
\* later one is kept.  The result is an index into regions, 0 for None.
RECURSIVE MaxBy(_, _, _)
MaxBy(regions, best, i) ==
    IF i > Len(regions) THEN best
    ELSE IF regions[best].score > regions[i].score
         THEN MaxBy(regions, best, i + 1)
    ELSE MaxBy(regions, i, i + 1)

PickPrimaryRegion(regions) ==
    IF regions = <<>> THEN 0 ELSE MaxBy(regions, 1, 2)

\* What the detector session hands to decode_palm_outputs: the shape class
\* of its outputs, and per anchor the sigmoid score with the box centre and
\* half extents.
ShapeChoices ==
    {"ok", "fewOutputs", "boxRank", "scoreRank", "featureDim", "anchorDim"}
AnchorOutputs ==
    [score : {2, 5, 9}, cx : {F(-2), F(0), F(1), F(2), F(4)},
     hw : {F(0), F(1), NaN}, cy : {F(1)}, hh : {F(0), F(1)}]
PalmDims == {<<3, 2>>, <<1, 1>>}
PadChoices == {<<0, 0>>, <<0, 1>>, <<1, 0>>}
ThresholdChoices == {3, 6}

\* detect: outputs.len() < 2; decode_palm_outputs: the shape checks that
\* precede the anchor loop.
ShapeError(shape) == shape # "ok"

\* OrtEngine::infer: palm_detector.detect(frame).unwrap_or_else(|err| {
\*     log::warn!(..); Vec::new() })
RegionsSeenByInfer(detectOk, detections) ==
    IF detectOk THEN detections ELSE <<>>

\* no detect call made yet
NoPalm ==
    [stage |-> "none", w |-> 0, h |-> 0, pad |-> <<0, 0>>, threshold |-> 0,
     topK |-> 0, shape |-> "ok", anchors |-> 0, idx |-> 0,
     candidates |-> <<>>, detections |-> <<>>, regions |-> <<>>,
     primary |-> 0, inferOk |-> FALSE]

\* ------------------------------------------------- optional model outputs
\* no landmark inference made yet
NoPose ==
    [stage |-> "none", regions |-> FALSE, nOutputs |-> 0, conf |-> 0,
     hand |-> 0, session |-> FALSE, class |-> 0,
     inferOk |-> FALSE, landmarkRun |-> FALSE, confidence |-> 0,
     handedness |-> 0, emitted |-> FALSE, detail |-> FALSE,
     primary |-> "none", side |-> "none"]

\* ------------------------------------------------------------ rotated crop
\* no crop prepared yet
NoXf ==
    [stage |-> "none", w |-> 0, h |-> 0, center |-> <<0, 0>>, side |-> 0,
     turns |-> 0, size |-> 0, pos |-> <<0, 0>>, sampled |-> <<0, 0>>,
     projected |-> <<0, 0>>]

\* --------------------------------------------------------- worker start-up
\* start_worker not yet called
NoBoot ==
    [stage |-> "none", handposeFile |-> FALSE, palmFile |-> FALSE,
     bundledFile |-> FALSE, downloads |-> 0, copies |-> 0,
     error |-> "none", classifierFile |-> FALSE, classifier |-> FALSE]

\* ------------------------------------------------------------------ Init
PipeInit ==
    /\ revision \in Revisions
    /\ frameQ = <<>> /\ uiQ = <<>> /\ resultQ = <<>>
    /\ frameTxAlive = TRUE
    /\ nextId = 1
    /\ uiPc = "idle" /\ cameraStream = 0 /\ nStreams = 0 /\ stopping = 0
    /\ recognizerHandle = FALSE
    /\ latestResult = NoResult
    /\ capPc = [s \in StreamIds |-> "none"]
    /\ stopFlag = [s \in StreamIds |-> FALSE]
    /\ capFrame = [s \in StreamIds |-> NoFrame]
    /\ capRecog = [s \in StreamIds |-> FALSE]
    /\ wPc = "unstarted" /\ wFrame = NoFrame /\ wOutput = NoResult
    /\ startup = [loads |-> 0, failed |-> FALSE]
    /\ fate = [i \in FrameIds |-> "none"]
    /\ sawQueued = [i \in FrameIds |-> 0]
    /\ srcStream = [i \in FrameIds |-> 0]
    /\ resFate = [i \in FrameIds |-> "none"]
    /\ resSaw = [i \in FrameIds |-> 0]
    /\ callDequeued = <<>>
    /\ stopReturned = {}

\* preprocessing check: no call made yet
PrepNone == [ok |-> FALSE, used |-> -1, read |-> FALSE]
NoPrep == [frame |-> NoFrame, letterbox |-> PrepNone, crop |-> PrepNone,
           legacy |-> PrepNone]

\* No camera view has been built: the lifecycle check has not started.
NoCam ==
    [stage |-> "off", pc |-> "idle", cameraStream |-> 0, stopping |-> 0,
     requested |-> 0, selectedCameraIdx |-> 0, cameraError |-> FALSE,
     threads |-> <<>>, stop |-> <<>>, calls |-> 0, last |-> "none",
     before |-> 0]

\* The refill check has not started: no capture loop, no worker call.
NoLive ==
    [stage |-> "off", capPc |-> "done", stop |-> FALSE, queue |-> <<>>,
     wPc |-> "done", frame |-> 0, next |-> 0]

\* the isolated checks below are idle
OthersIdle ==
    pose = NoPose /\ xf = NoXf /\ boot = NoBoot /\ cam = NoCam /\ live = NoLive

Init ==
    PipeInit /\ prep = NoPrep /\ gest = NoGest /\ palm = NoPalm /\ OthersIdle

\* -------------------------------------------------------- capture thread
CapAlive(s) == capPc[s] \notin {"none", "done"}

\* thread::spawn closure, first statement: build_camera(index); a failure
\* logs and returns.
CapOpen(s) ==
    /\ capPc[s] = "open"
    /\ \E ok \in BOOLEAN :
         capPc' = [capPc EXCEPT ![s] = IF ok THEN "check" ELSE "done"]
    /\ UNCHANGED <<revision, frameQ, uiQ, resultQ, frameTxAlive, nextId,
                   uiPc, cameraStream, nStreams, recognizerHandle,
                   latestResult, stopFlag, capFrame, capRecog, wPc, wFrame,
                   wOutput, startup, fate, sawQueued, srcStream,
                   resFate, resSaw, callDequeued, stopReturned, stopping,
                   prep, gest, palm,
                   pose, xf, boot, cam, live>>

\* while !stop_flag.load(Ordering::Relaxed).  The flag is the only thing the
\* UI thread passes to this thread, so a late-arriving store is the same
\* behaviour as a load scheduled before the store.
CapCheck(s) ==
    /\ capPc[s] = "check"
    /\ capPc' = [capPc EXCEPT ![s] = IF stopFlag[s] THEN "done" ELSE "grab"]
    /\ UNCHANGED <<revision, frameQ, uiQ, resultQ, frameTxAlive, nextId,
                   uiPc, cameraStream, nStreams, recognizerHandle,
                   latestResult, stopFlag, capFrame, capRecog, wPc, wFrame,
                   wOutput, startup, fate, sawQueued, srcStream,
                   resFate, resSaw, callDequeued, stopReturned, stopping,
                   prep, gest, palm,
                   pose, xf, boot, cam, live>>

\* camera.frame() or the RGBA conversion fails (or, legacy, the decoded
\* image is empty): log and `continue`.
CapGrabFail(s) ==
    /\ capPc[s] = "grab"
    /\ capPc' = [capPc EXCEPT ![s] = "check"]
    /\ UNCHANGED <<revision, frameQ, uiQ, resultQ, frameTxAlive, nextId,
                   uiPc, cameraStream, nStreams, recognizerHandle,
                   latestResult, stopFlag, capFrame, capRecog, wPc, wFrame,
                   wOutput, startup, fate, sawQueued, srcStream,
                   resFate, resSaw, callDequeued, stopReturned, stopping,
                   prep, gest, palm,
                   pose, xf, boot, cam, live>>

\* legacy: last_recog_frame starts one interval in the past, so the first
\* frame of a thread is always queued for the recognizer; afterwards it
\* depends on the time elapsed since the last queued frame.
OfferedBefore(s) ==
    \E i \in FrameIds :
        srcStream[i] = s /\ fate[i] \notin {"none", "captured", "throttled"}

ShouldQueueRecog(s) ==
    IF revision = "legacy" /\ OfferedBefore(s) THEN BOOLEAN ELSE {TRUE}

\* A frame is read and converted; the Frame value is built.
CapGrab(s) ==
    /\ capPc[s] = "grab"
    /\ nextId <= MaxFrames
    /\ \E d \in CameraDims :
         \E l \in CameraLens(revision, d[1], d[2]) :
           capFrame' = [capFrame EXCEPT
                          ![s] = [id |-> nextId, w |-> d[1], h |-> d[2],
                                  len |-> l]]
    /\ \E q \in ShouldQueueRecog(s) :
         capRecog' = [capRecog EXCEPT ![s] = q]
    /\ capPc' = [capPc EXCEPT
                   ![s] = IF revision = "legacy" THEN "sendUi" ELSE "send"]
    /\ fate' = [fate EXCEPT ![nextId] = "captured"]
    /\ srcStream' = [srcStream EXCEPT ![nextId] = s]
    /\ nextId' = nextId + 1
    /\ UNCHANGED <<revision, frameQ, uiQ, resultQ, frameTxAlive, uiPc,
                   cameraStream, nStreams, recognizerHandle, latestResult,
                   stopFlag, wPc, wFrame, wOutput, startup, sawQueued,
                   resFate, resSaw, callDequeued, stopReturned, stopping,
                   prep, gest, palm,
                   pose, xf, boot, cam, live>>

\* legacy camera.rs: let _ = ui_tx.try_send(frame); then the throttled
\* recognizer copy, if one was made.  The display copy is the Frame value
\* itself; the id that tells recognizer frames apart is not part of it.
DisplayCopy(f) == [w |-> f.w, h |-> f.h, len |-> f.len]

CapSendUi(s) ==
    /\ capPc[s] = "sendUi"
    /\ uiQ' = TrySend(uiQ, DisplayCopy(capFrame[s]), UiQueueCap, TRUE)
    /\ capPc' = [capPc EXCEPT ![s] = IF capRecog[s] THEN "send" ELSE "check"]
    /\ fate' = [fate EXCEPT
                  ![capFrame[s].id] = IF capRecog[s] THEN @ ELSE "throttled"]
    /\ capFrame' = [capFrame EXCEPT ![s] = IF capRecog[s] THEN @ ELSE NoFrame]
    /\ UNCHANGED <<revision, frameQ, resultQ, frameTxAlive, nextId, uiPc,
                   cameraStream, nStreams, recognizerHandle, latestResult,
                   stopFlag, capRecog, wPc, wFrame, wOutput, startup,
                   sawQueued, srcStream, resFate, resSaw, callDequeued,
                   stopReturned, stopping, prep, gest, palm,
                   pose, xf, boot, cam, live>>

\* let _ = frame_tx.try_send(frame); (legacy: recog_tx) -- the Result is
\* discarded and the loop goes back to the stop-flag test.
CapSend(s) ==
    /\ capPc[s] = "send"
    /\ frameQ' = TrySend(frameQ, capFrame[s], FrameQueueCap, FrameRxAlive)
    /\ fate' = [fate EXCEPT
                  ![capFrame[s].id] =
                      IF frameQ' # frameQ THEN "queued" ELSE "sendDropped"]
    /\ sawQueued' = [sawQueued EXCEPT ![capFrame[s].id] = HeadId(frameQ)]
    /\ capPc' = [capPc EXCEPT ![s] = "check"]
    /\ capFrame' = [capFrame EXCEPT ![s] = NoFrame]
    /\ UNCHANGED <<revision, uiQ, resultQ, frameTxAlive, nextId, uiPc,
                   cameraStream, nStreams, recognizerHandle, latestResult,
                   stopFlag, capRecog, wPc, wFrame, wOutput, startup,
                   srcStream, resFate, resSaw, callDequeued, stopReturned,
                   stopping, prep, gest, palm,
                   pose, xf, boot, cam, live>>

\* -------------------------------------------------------------- UI thread
\* start_camera_for_device, first half: stop_camera_stream() takes the
\* current stream, if any, and CameraStream::stop stores true in its flag.
UiStartCamera ==
    /\ uiPc = "idle"
    /\ IF cameraStream # 0
         THEN /\ stopFlag' = [stopFlag EXCEPT ![cameraStream] = TRUE]
              /\ stopping' = cameraStream
              /\ cameraStream' = 0
              /\ uiPc' = "join"
         ELSE /\ uiPc' = "start"
              /\ UNCHANGED <<stopFlag, stopping, cameraStream>>
    /\ UNCHANGED <<revision, frameQ, uiQ, resultQ, frameTxAlive, nextId,
                   nStreams, recognizerHandle, latestResult, capPc, capFrame,
                   capRecog, wPc, wFrame, wOutput, startup, fate,
                   sawQueued, srcStream, resFate, resSaw, callDequeued,
                   stopReturned, prep, gest, palm,
                   pose, xf, boot, cam, live>>

\* CameraStream::stop, second half: handle.join() returns once the capture
\* thread has finished; the Drop that follows finds the handle taken.
JoinReturnsEarly(s) == TRUE

JoinReturns(s) == capPc[s] = "done"

UiJoin ==
    /\ uiPc = "join"
    /\ JoinReturns(stopping)
    /\ stopReturned' = stopReturned \cup {stopping}
    /\ stopping' = 0
    /\ uiPc' = "start"
    /\ UNCHANGED <<revision, frameQ, uiQ, resultQ, frameTxAlive, nextId,
                   cameraStream, nStreams, recognizerHandle, latestResult,
                   capPc, stopFlag, capFrame, capRecog, wPc, wFrame, wOutput,
                   startup, fate, sawQueued, srcStream, resFate, resSaw,
                   callDequeued, prep, gest, palm,
                   pose, xf, boot, cam, live>>

\* start_camera_for_device, second half: start_camera_stream.  The fail-fast
\* build_camera either returns Err (no thread, camera_stream stays None) or
\* a thread is spawned with a fresh stop flag and the view state is reset.
UiStartFail ==
    /\ uiPc = "start"
    /\ uiPc' = "idle"
    /\ UNCHANGED <<revision, frameQ, uiQ, resultQ, frameTxAlive, nextId,
                   cameraStream, nStreams, recognizerHandle, latestResult,
                   capPc, stopFlag, capFrame, capRecog, wPc, wFrame, wOutput,
                   startup, fate, sawQueued, srcStream, resFate, resSaw,
                   callDequeued, stopReturned, stopping, prep, gest, palm,
                   pose, xf, boot, cam, live>>

UiStartOk ==
    /\ uiPc = "start"
    /\ nStreams < MaxStreams
    /\ nStreams' = nStreams + 1
    /\ capPc' = [capPc EXCEPT ![nStreams + 1] = "open"]
    /\ cameraStream' = nStreams + 1
    /\ latestResult' = NoResult
    /\ uiPc' = "idle"
    /\ UNCHANGED <<revision, frameQ, uiQ, resultQ, frameTxAlive, nextId,
                   recognizerHandle, stopFlag, capFrame, capRecog, wPc,
                   wFrame, wOutput, startup, fate, sawQueued, srcStream,
                   resFate, resSaw, callDequeued, stopReturned, stopping,
                   prep, gest, palm,
                   pose, xf, boot, cam, live>>

\* start_recognizer_if_needed: returns at once when a handle is stored
\* (also the handle of a worker that has already returned); reached only
\* after a camera was started.
UiStartRecognizer ==
    /\ uiPc = "idle"
    /\ nStreams >= 1
    /\ ~recognizerHandle
    /\ recognizerHandle' = TRUE
    /\ wPc' = "ensure"
    /\ UNCHANGED <<revision, frameQ, uiQ, resultQ, frameTxAlive, nextId,
                   uiPc, cameraStream, nStreams, latestResult, capPc,
                   stopFlag, capFrame, capRecog, wFrame, wOutput,
                   startup, fate, sawQueued, srcStream, resFate, resSaw,
                   callDequeued, stopReturned, stopping, prep, gest, palm,
                   pose, xf, boot, cam, live>>

\* render_main: while let Ok(result) = rx.try_recv() { latest_result = .. }
UiRecvResult ==
    /\ uiPc = "idle"
    /\ resultQ # <<>>
    /\ latestResult' = Head(resultQ)
    /\ resultQ' = Tail(resultQ)
    /\ resFate' = [resFate EXCEPT ![Head(resultQ).frame] = "delivered"]
    /\ UNCHANGED <<revision, frameQ, uiQ, frameTxAlive, nextId, uiPc,
                   cameraStream, nStreams, recognizerHandle, capPc, stopFlag,
                   capFrame, capRecog, wPc, wFrame, wOutput, startup,
                   fate, sawQueued, srcStream, resSaw, callDequeued,
                   stopReturned, stopping, prep, gest, palm,
                   pose, xf, boot, cam, live>>

\* render_main (legacy): while let Ok(frame) = rx.try_recv() { .. }
UiRecvFrame ==
    /\ uiPc = "idle"
    /\ uiQ # <<>>
    /\ uiQ' = Tail(uiQ)
    /\ UNCHANGED <<revision, frameQ, resultQ, frameTxAlive, nextId, uiPc,
                   cameraStream, nStreams, recognizerHandle, latestResult,
                   capPc, stopFlag, capFrame, capRecog, wPc, wFrame, wOutput,
                   startup, fate, sawQueued, srcStream, resFate, resSaw,
                   callDequeued, stopReturned, stopping, prep, gest, palm,
                   pose, xf, boot, cam, live>>

\* The AppView is dropped at exit.  Its CameraStream, if any, runs Drop
\* (store true, join); its Sender<Frame> goes away.  While the capture
\* thread lives it holds a clone of the sender, so the order of the two
\* field drops cannot be observed.
UiExit ==
    /\ uiPc = "idle"
    /\ IF cameraStream # 0
         THEN /\ stopFlag' = [stopFlag EXCEPT ![cameraStream] = TRUE]
              /\ stopping' = cameraStream
              /\ cameraStream' = 0
              /\ uiPc' = "exitJoin"
              /\ UNCHANGED frameTxAlive
         ELSE /\ uiPc' = "exited"
              /\ frameTxAlive' = FALSE
              /\ UNCHANGED <<stopFlag, stopping, cameraStream>>
    /\ UNCHANGED <<revision, frameQ, uiQ, resultQ, nextId, nStreams,
                   recognizerHandle, latestResult, capPc, capFrame, capRecog,
                   wPc, wFrame, wOutput, startup, fate, sawQueued,
                   srcStream, resFate, resSaw, callDequeued, stopReturned,
                   prep, gest, palm,
                   pose, xf, boot, cam, live>>

UiExitJoin ==
    /\ uiPc = "exitJoin"
    /\ JoinReturns(stopping)
    /\ stopReturned' = stopReturned \cup {stopping}
    /\ stopping' = 0
    /\ frameTxAlive' = FALSE
    /\ uiPc' = "exited"
    /\ UNCHANGED <<revision, frameQ, uiQ, resultQ, nextId, cameraStream,
                   nStreams, recognizerHandle, latestResult, capPc, stopFlag,
                   capFrame, capRecog, wPc, wFrame, wOutput, startup,
                   fate, sawQueued, srcStream, resFate, resSaw, callDequeued,
                   prep, gest, palm,
                   pose, xf, boot, cam, live>>

\* ------------------------------------------------------ recognizer worker
\* start_worker: ensure_model_available(..) (pipeline: the two
\* ensure_*_model_ready calls); an Err logs and returns.
WEnsure ==
    /\ wPc = "ensure"
    /\ \E ok \in BOOLEAN :
         /\ wPc' = IF ok THEN "load" ELSE "done"
         /\ startup' = [startup EXCEPT !.failed = ~ok]
    /\ UNCHANGED <<revision, frameQ, uiQ, resultQ, frameTxAlive, nextId,
                   uiPc, cameraStream, nStreams, recognizerHandle,
                   latestResult, capPc, stopFlag, capFrame, capRecog, wFrame,
                   wOutput, fate, sawQueued, srcStream,
                   resFate, resSaw, callDequeued, stopReturned, stopping,
                   prep, gest, palm,
                   pose, xf, boot, cam, live>>

\* start_worker: OrtEngine::new(..); Err logs and returns, Ok enters
\* run_worker_loop.
AfterLoadRetry(ok) == IF ok THEN "recv" ELSE "load"

AfterLoad(ok) == IF ok THEN "recv" ELSE "done"

WLoad ==
    /\ wPc = "load"
    /\ startup.loads < MaxLoads   \* keeps the history counter finite
    /\ \E ok \in BOOLEAN :
         /\ wPc' = AfterLoad(ok)
         /\ startup' = [loads |-> startup.loads + 1,
                        failed |-> startup.failed \/ ~ok]
    /\ UNCHANGED <<revision, frameQ, uiQ, resultQ, frameTxAlive, nextId,
                   uiPc, cameraStream, nStreams, recognizerHandle,
                   latestResult, capPc, stopFlag, capFrame, capRecog, wFrame,
                   wOutput, fate, sawQueued, srcStream, resFate, resSaw,
                   callDequeued, stopReturned, stopping, prep, gest, palm,
                   pose, xf, boot, cam, live>>

\* A Sender<Frame> exists while the AppView or a capture thread holds one.
FrameSenders == frameTxAlive \/ \E s \in StreamIds : CapAlive(s)

\* recv_latest_frame: frame_rx.recv().ok()? -- blocks while the queue is
\* empty and a sender lives; None (loop exit) when empty and disconnected.
WRecv ==
    /\ wPc = "recv"
    /\ frameQ # <<>>
    /\ wFrame' = Head(frameQ)
    /\ frameQ' = Tail(frameQ)
    /\ callDequeued' = <<Head(frameQ).id>>
    /\ fate' = [fate EXCEPT ![Head(frameQ).id] = "held"]
    /\ wPc' = "drain"
    /\ UNCHANGED <<revision, uiQ, resultQ, frameTxAlive, nextId, uiPc,
                   cameraStream, nStreams, recognizerHandle, latestResult,
                   capPc, stopFlag, capFrame, capRecog, wOutput,
                   startup, sawQueued, srcStream, resFate, resSaw,
                   stopReturned, stopping, prep, gest, palm,
                   pose, xf, boot, cam, live>>

WRecvDisconnected ==
    /\ wPc = "recv"
    /\ frameQ = <<>>
    /\ ~FrameSenders
    /\ wPc' = "done"
    /\ UNCHANGED <<revision, frameQ, uiQ, resultQ, frameTxAlive, nextId,
                   uiPc, cameraStream, nStreams, recognizerHandle,
                   latestResult, capPc, stopFlag, capFrame, capRecog, wFrame,
                   wOutput, startup, fate, sawQueued, srcStream,
                   resFate, resSaw, callDequeued, stopReturned, stopping,
                   prep, gest, palm,
                   pose, xf, boot, cam, live>>

\* recv_latest_frame: while let Ok(newer) = frame_rx.try_recv()
\*                        { frame = newer; }
KeepOlder(held, newer) == held

TakeNewer(held, newer) == newer

WDrainNewer ==
    /\ wPc = "drain"
    /\ frameQ # <<>>
    /\ wFrame' = TakeNewer(wFrame, Head(frameQ))
    /\ frameQ' = Tail(frameQ)
    /\ callDequeued' = Append(callDequeued, Head(frameQ).id)
    /\ fate' = [i \in FrameIds |->
                  IF i = wFrame'.id THEN "held"
                  ELSE IF i \in {wFrame.id, Head(frameQ).id}
                       THEN "drainDiscarded"
                  ELSE fate[i]]
    /\ UNCHANGED <<revision, uiQ, resultQ, frameTxAlive, nextId, uiPc,
                   cameraStream, nStreams, recognizerHandle, latestResult,
                   capPc, stopFlag, capFrame, capRecog, wPc, wOutput,
                   startup, sawQueued, srcStream, resFate, resSaw,
                   stopReturned, stopping, prep, gest, palm,
                   pose, xf, boot, cam, live>>

\* try_recv returns Err (Empty or Disconnected): Some(frame) is returned.
WDrainEmpty ==
    /\ wPc = "drain"
    /\ frameQ = <<>>
    /\ wPc' = "infer"
    /\ UNCHANGED <<revision, frameQ, uiQ, resultQ, frameTxAlive, nextId,
                   uiPc, cameraStream, nStreams, recognizerHandle,
                   latestResult, capPc, stopFlag, capFrame, capRecog, wFrame,
                   wOutput, startup, fate, sawQueued, srcStream,
                   resFate, resSaw, callDequeued, stopReturned, stopping,
                   prep, gest, palm,
                   pose, xf, boot, cam, live>>

\* run_worker_loop body: match engine.infer(&frame).  Ok builds the
\* GestureResult (build_gesture_result) for the try_send that follows; Err
\* is logged and the loop goes back to recv_latest_frame.
AfterInferErrStop == "done"

AfterInferErrRetry == "infer"

AfterInferErr == "recv"

WInfer ==
    /\ wPc = "infer"
    /\ \E ext \in ExtChoices :
         LET out == Infer(revision, wFrame, ext) IN
         IF out.ok
         THEN /\ wOutput' = [frame |-> wFrame.id,
                             confidence |-> out.confidence]
              /\ wPc' = "send"
              /\ fate' = [fate EXCEPT ![wFrame.id] = "inferred"]
              /\ UNCHANGED wFrame
         ELSE /\ wPc' = AfterInferErr
              /\ fate' = [fate EXCEPT ![wFrame.id] = "failed"]
              /\ wFrame' = NoFrame
              /\ UNCHANGED wOutput
    /\ UNCHANGED <<revision, frameQ, uiQ, resultQ, frameTxAlive, nextId,
                   uiPc, cameraStream, nStreams, recognizerHandle,
                   latestResult, capPc, stopFlag, capFrame, capRecog,
                   startup, sawQueued, srcStream, resFate, resSaw,
                   callDequeued, stopReturned, stopping, prep, gest, palm,
                   pose, xf, boot, cam, live>>

\* let _ = result_tx.try_send(gesture);
WSend ==
    /\ wPc = "send"
    /\ resultQ' = TrySend(resultQ, wOutput, ResultQueueCap, ResultRxAlive)
    /\ resFate' = [resFate EXCEPT
                     ![wOutput.frame] =
                         IF resultQ' # resultQ THEN "queued" ELSE "dropped"]
    /\ resSaw' = [resSaw EXCEPT
                    ![wOutput.frame] =
                        IF resultQ = <<>> THEN 0 ELSE Head(resultQ).frame]
    /\ wPc' = "recv"
    /\ wFrame' = NoFrame
    /\ wOutput' = NoResult
    /\ UNCHANGED <<revision, frameQ, uiQ, frameTxAlive, nextId, uiPc,
                   cameraStream, nStreams, recognizerHandle, latestResult,
                   capPc, stopFlag, capFrame, capRecog, startup, fate,
                   sawQueued, srcStream, callDequeued, stopReturned,
                   stopping, prep, gest, palm,
                   pose, xf, boot, cam, live>>

\* ------------------------------------------------------------------- Next
Capture ==
    \E s \in StreamIds :
        \/ CapOpen(s)
        \/ CapCheck(s)
        \/ CapGrabFail(s)
        \/ CapGrab(s)
        \/ CapSendUi(s)
        \/ CapSend(s)

Ui ==
    \/ UiStartCamera
    \/ UiJoin
    \/ UiStartFail
    \/ UiStartOk
    \/ UiStartRecognizer
    \/ UiRecvResult
    \/ UiRecvFrame
    \/ UiExit
    \/ UiExitJoin

Worker ==
    \/ WEnsure
    \/ WLoad
    \/ WRecv
    \/ WRecvDisconnected
    \/ WDrainNewer
    \/ WDrainEmpty
    \/ WInfer
    \/ WSend

Next == Capture \/ Ui \/ Worker

Spec == Init /\ [][Next]_vars

\* ------------------------------------------------ preprocessing in isolation
\* Frame is a plain struct with public fields and the prepare_* functions are
\* public, so they can be handed any width, height and buffer length.
PrepFrames ==
    {[id |-> 1, w |-> w, h |-> h, len |-> l] :
        w \in 1..MaxDim, h \in 1..MaxDim,
        l \in 0..(ExpectedLen(MaxDim, MaxDim) + MaxSlack)}

PrepInit ==
    /\ PipeInit
    /\ revision = "pipeline"
    /\ \E f \in PrepFrames :
         /\ f.len >= ExpectedLen(f.w, f.h) - MaxSlack
         /\ f.len <= ExpectedLen(f.w, f.h) + MaxSlack
         /\ prep = [NoPrep EXCEPT !.frame = f]
    /\ gest = NoGest /\ palm = NoPalm /\ OthersIdle

\* prepare_frame_with_size(frame, target_size)
PrepLetterbox ==
    /\ prep.letterbox = PrepNone
    /\ prep' = [prep EXCEPT !.letterbox = PrepareFrameWithSize(prep.frame)]
    /\ UNCHANGED <<pipeVars, gest, palm, pose, xf, boot, cam, live>>

\* prepare_rotated_crop(frame, center, side, angle, output_size)
PrepCrop ==
    /\ prep.crop = PrepNone
    /\ prep' = [prep EXCEPT !.crop = PrepareRotatedCrop(prep.frame)]
    /\ UNCHANGED <<pipeVars, gest, palm, pose, xf, boot, cam, live>>

\* recognizer/common.rs prepare_frame(frame)
PrepLegacy ==
    /\ prep.legacy = PrepNone
    /\ prep' = [prep EXCEPT !.legacy = PrepareFrame(prep.frame)]
    /\ UNCHANGED <<pipeVars, gest, palm, pose, xf, boot, cam, live>>

PrepNext == PrepLetterbox \/ PrepCrop \/ PrepLegacy

SpecPrep == PrepInit /\ [][PrepNext]_vars

\* ======================================================= properties =====
\* Frames on which engine.infer has been run (or is being run).
Processed(i) ==
    \/ fate[i] \in {"inferred", "failed"}
    \/ wPc = "infer" /\ wFrame.id = i

\* b and c were both offered while a was still sitting in the frame queue.
ArrivedBeforeConsumed(a, b, c) ==
    /\ a < b /\ b < c
    /\ sawQueued[b] = a
    /\ sawQueued[c] = a

\* C1 as stated: when f2 and f3 are offered while f1 is still queued, the
\* recognizer processes only f3; f1 and f2 are dropped and never processed.
C1_LatestOfThreeWins ==
    \A a, b, c \in FrameIds :
        ArrivedBeforeConsumed(a, b, c) =>
            /\ ~Processed(a)
            /\ ~Processed(b)
            /\ fate[c] # "sendDropped"

\* C1 amended: when f2 and f3 are offered while f1 is still queued, try_send
\* rejects both (the queue is full) and neither is ever dequeued or
\* processed; f1 stays at the head of the queue and is the frame the
\* recognizer dequeues next.
C1_QueuedFrameWins ==
    \A a, b, c \in FrameIds :
        ArrivedBeforeConsumed(a, b, c) =>
            /\ fate[b] = "sendDropped"
            /\ fate[c] = "sendDropped"
            /\ ~Processed(b) /\ ~Processed(c)
            /\ fate[a] \in {"queued", "held", "drainDiscarded", "inferred",
                            "failed"}
            /\ fate[a] = "queued" => HeadId(frameQ) = a

C1_Witness ==
    \E a, b, c \in FrameIds :
        ArrivedBeforeConsumed(a, b, c) /\ fate[a] = "inferred"

\* C2: when recv_latest_frame returns a frame, the queue was seen empty, the
\* frame is the last (newest) of the frames the call dequeued, and every
\* frame dequeued earlier in the call is discarded, never processed.
C2_RecvLatestReturnsNewest ==
    /\ [][(wPc = "drain" /\ wPc' = "infer") =>
          /\ frameQ = <<>>
          /\ wFrame'.id = callDequeued'[Len(callDequeued')]
          /\ \A k \in 1..(Len(callDequeued') - 1) :
                /\ callDequeued'[k] < wFrame'.id
                /\ fate'[callDequeued'[k]] = "drainDiscarded"]_vars
    /\ [](\A i \in FrameIds : fate[i] = "drainDiscarded" => ~Processed(i))

C2_Witness == wPc = "infer" /\ Len(callDequeued) >= 2

\* C3: a send that finds its queue full drops the offered item, leaves the
\* queue as it was, raises nothing, and the sender goes on with its loop.
C3_FullQueueDropsOffered ==
    [][/\ \A s \in StreamIds :
            (capPc[s] = "send" /\ capPc'[s] # "send"
               /\ Len(frameQ) >= FrameQueueCap) =>
                /\ frameQ' = frameQ
                /\ fate'[capFrame[s].id] = "sendDropped"
                /\ capPc'[s] = "check"
       /\ \A s \in StreamIds :
            (capPc[s] = "sendUi" /\ capPc'[s] # "sendUi"
               /\ Len(uiQ) >= UiQueueCap) =>
                /\ uiQ' = uiQ
                /\ capPc'[s] \in {"send", "check"}
       /\ (wPc = "send" /\ wPc' # "send"
             /\ Len(resultQ) >= ResultQueueCap) =>
                /\ resultQ' = resultQ
                /\ resFate'[wOutput.frame] = "dropped"
                /\ wPc' = "recv"]_vars

C3_Witness ==
    /\ \E i \in FrameIds : fate[i] = "sendDropped"
    /\ \E j \in FrameIds : resFate[j] = "dropped"

\* Results that were handed to the results queue at some point.
ResultOffered(i) == resFate[i] \in {"queued", "delivered", "dropped"}

\* C4 as stated: a result produced while an older one is still undelivered
\* overwrites the older one, and the UI's next receive yields the newer.
C4_NewerResultOverwrites ==
    \A i \in FrameIds :
        resSaw[i] # 0 =>
            /\ resFate[i] \in {"queued", "delivered"}
            /\ resFate[resSaw[i]] # "delivered"

\* C4 amended: a result produced while an older one is still undelivered is
\* dropped by try_send; the older result stays in the queue, the UI's next
\* receive yields the older one, and the newer one is never delivered.
C4_OlderResultKept ==
    \A i \in FrameIds :
        resSaw[i] # 0 =>
            /\ resFate[i] = "dropped"
            /\ latestResult.frame # i
            /\ \A k \in 1..Len(resultQ) : resultQ[k].frame # i
            /\ resFate[resSaw[i]] \in {"queued", "delivered"}
            /\ resFate[resSaw[i]] = "queued" =>
                   resultQ = <<[frame |-> resSaw[i],
                                confidence |-> Head(resultQ).confidence]>>

C4_Witness ==
    \E i \in FrameIds :
        resSaw[i] # 0 /\ latestResult.frame = resSaw[i]

\* C5: the frame queue and the results queue never hold more than one item,
\* the recognizer holds at most one frame, and every frame that was accepted
\* and is not yet processed is either the queued one or the held one.
FramesIn(q) == {q[k].id : k \in 1..Len(q)}

C5_SingleSlotEverywhere ==
    /\ Len(frameQ) <= 1
    /\ Len(resultQ) <= 1
    /\ Len(uiQ) <= 1
    /\ Cardinality({i \in FrameIds : fate[i] = "held"}) <= 1
    /\ \A i \in FrameIds : fate[i] = "queued" <=> i \in FramesIn(frameQ)
    /\ \A i \in FrameIds :
          fate[i] = "held" <=> (wFrame.id = i /\ wPc \in {"drain", "infer"})
    /\ \A i \in FrameIds :
          fate[i] = "captured" <=> \E s \in StreamIds : capFrame[s].id = i

C5_Witness == Len(frameQ) = 1 /\ Len(resultQ) = 1 /\ wPc = "infer"

\* A frame of stream s moves from the capture loop into a channel.
SendsInStep(s) ==
    \/ capPc[s] = "send" /\ capPc'[s] # "send"
    \/ capPc[s] = "sendUi" /\ capPc'[s] # "sendUi"

\* C6: once CameraStream::stop (or the Drop) of a stream has returned, its
\* capture thread has terminated and sends nothing more.
C6_NoSendAfterStop ==
    /\ [](\A s \in stopReturned : capPc[s] = "done" /\ capFrame[s] = NoFrame)
    /\ [][\A s \in StreamIds : SendsInStep(s) => s \notin stopReturned']_vars

C6_Witness ==
    \E s \in stopReturned :
        \E i \in FrameIds : srcStream[i] = s /\ fate[i] = "sendDropped"

\* C7: an inference error sends no result for the frame, leaves the worker
\* running and back at its receive; a later frame whose inference succeeds
\* has its result offered to the results queue.
C7_InferErrorNotFatal ==
    /\ [][(wPc = "infer" /\ wPc' # "infer" /\ fate'[wFrame.id] = "failed")
            => (wPc' = "recv" /\ resultQ' = resultQ
                  /\ wOutput' = NoResult)]_vars
    /\ [](\A i \in FrameIds : fate[i] = "failed" => ~ResultOffered(i))
    /\ [][(wPc = "infer" /\ wPc' # "infer" /\ fate'[wFrame.id] = "inferred")
            => (wPc' = "send" /\ wOutput'.frame = wFrame.id)]_vars
    /\ [][(wPc = "send" /\ wPc' # "send")
            => resFate'[wOutput.frame] \in {"queued", "dropped"}]_vars

C7_Witness ==
    \E a, b \in FrameIds :
        a < b /\ fate[a] = "failed" /\ ResultOffered(b)

\* C8: when the model cannot be made ready or the engine fails to load, the
\* worker has terminated, it never received a frame nor emitted a result,
\* and the engine load was tried at most once.
C8_StartFailureIsFinal ==
    startup.failed =>
        /\ wPc = "done"
        /\ startup.loads <= 1
        /\ recognizerHandle
        /\ callDequeued = <<>>
        /\ \A i \in FrameIds :
              /\ fate[i] \notin {"held", "drainDiscarded", "inferred",
                                 "failed"}
              /\ resFate[i] = "none"
        /\ resultQ = <<>> /\ latestResult = NoResult

C8_Witness ==
    /\ startup.failed /\ startup.loads = 1
    /\ \E i \in FrameIds : fate[i] = "queued"

BadLength(f) == f.len # ExpectedLen(f.w, f.h)

\* C9 as stated: a frame whose buffer length differs from width*height*4 is
\* skipped -- no GestureResult is produced for it -- and the worker goes back
\* to receiving the next frame.
C9_BadFrameSkipped ==
    [][(wPc = "infer" /\ wPc' # "infer" /\ BadLength(wFrame)) =>
          /\ fate'[wFrame.id] = "failed"
          /\ wPc' = "recv"
          /\ wOutput' = NoResult
          /\ resultQ' = resultQ]_vars

\* C10 as stated: for a frame whose buffer length is not width*height*4,
\* every preprocessing entry point returns an error before reading a pixel
\* and builds nothing from a truncated or padded buffer.
C10_MismatchRejected ==
    BadLength(prep.frame) =>
        \A r \in {prep.letterbox, prep.crop, prep.legacy} :
            r # PrepNone => (~r.ok /\ ~r.read /\ r.used = 0)

\* ------------------------------------------- gesture classifier in isolation
\* GestureClassifier::classify and build_gesture_result are public in the
\* crate; they are driven here with any confidence and landmark counts.
\* Frame timestamps are Instant::now() readings taken in capture order, so
\* they never decrease.
DtChoices == {0, 1, MOTION_WINDOW}

\* What a call leaves behind: the window and the call's inputs and outcome.
AfterCall(op, in, t, r, inferOk, regions, landmarkRun) ==
    [history |-> r.history,
     calls |-> gest.calls + 1,
     clock |-> t,
     last |-> [op |-> op, confidence |-> in.confidence, nRaw |-> in.nRaw,
               nProjected |-> in.nProjected,
               inferOk |-> inferOk, regions |-> regions,
               landmarkRun |-> landmarkRun, landmarks |-> r.landmarks,
               detail |-> r.detail, motion |-> r.motion,
               primary |-> in.hand.primary]]

GestInit ==
    /\ PipeInit
    /\ revision = "pipeline"
    /\ prep = NoPrep /\ palm = NoPalm /\ gest = NoGest /\ OthersIdle

\* classifier.classify(..) called directly
GestClassify ==
    /\ gest.calls < MaxCalls
    /\ \E gate \in GateChoices, dt \in DtChoices :
         LET in == GestInput(gate, CHOOSE hd \in HandChoices : hd.extent = 4)
             t == gest.clock + dt
             c == Classify(gest.history, in, t)
             r == [landmarks |-> FALSE, detail |-> c.some,
                   motion |-> c.motion, history |-> c.history]
         IN  gest' = AfterCall("classify", in, t, r, FALSE, "none", FALSE)
    /\ UNCHANGED <<pipeVars, prep, palm, pose, xf, boot, cam, live>>

\* build_gesture_result(output, frame, classifier) on a HandposeOutput with
\* all 21 landmarks
GestBuild ==
    /\ gest.calls < MaxCalls
    /\ \E gate \in GateChoices, hand \in HandChoices, dt \in DtChoices :
         /\ gate.nRaw = 21 /\ gate.nProjected = 21
         /\ LET in == GestInput(gate, hand)
                t == gest.clock + dt
                r == BuildGestureResult(gest.history, in, t)
            IN  gest' = AfterCall("build", in, t, r, FALSE, "none", FALSE)
    /\ UNCHANGED <<pipeVars, prep, palm, pose, xf, boot, cam, live>>

\* One worker iteration of the pipeline engine: engine.infer(&frame), then
\* on Ok build_gesture_result on its HandposeOutput (21 landmarks when the
\* landmark network ran, none otherwise).
GestInfer ==
    /\ gest.calls < MaxCalls
    /\ \E d \in CameraDims, ext \in ExtChoices :
         \E l \in CameraLens("pipeline", d[1], d[2]) :
           LET f == [id |-> 1, w |-> d[1], h |-> d[2], len |-> l]
               out == InferPipeline(f, ext)
               n == IF out.landmarkRun THEN 21 ELSE 0
               in == [confidence |-> out.confidence, nRaw |-> n,
                      nProjected |-> n,
                      hand |-> CHOOSE hd \in HandChoices : hd.extent = 4]
               t == gest.clock + 1
               r == IF out.ok THEN BuildGestureResult(gest.history, in, t)
                    ELSE [landmarks |-> FALSE, detail |-> FALSE,
                          motion |-> "none", history |-> gest.history]
           IN  gest' = AfterCall("infer", in, t, r, out.ok,
                                 PalmRegions(f, ext), out.landmarkRun)
    /\ UNCHANGED <<pipeVars, prep, palm, pose, xf, boot, cam, live>>

GestNext == GestClassify \/ GestBuild \/ GestInfer

SpecGesture == GestInit /\ [][GestNext]_vars

\* C11: with confidence < 0.2, whatever the landmark lists hold, classify
\* returns None and the GestureResult built from it has landmarks = None and
\* detail = None; classify also returns None when fewer than 21 raw or 21
\* projected landmarks are supplied.
C11_LowConfidenceGated ==
    /\ (gest.last.op \in {"classify", "build"} /\ gest.last.confidence < 2) =>
           ~gest.last.detail /\ ~gest.last.landmarks
    /\ (gest.last.op = "infer" /\ gest.last.inferOk
          /\ gest.last.confidence < 2) =>
           ~gest.last.detail /\ ~gest.last.landmarks
    /\ (gest.last.op = "classify"
          /\ (gest.last.nRaw < 21 \/ gest.last.nProjected < 21)) =>
           ~gest.last.detail

C11_Witness ==
    /\ gest.last.op = "classify"
    /\ gest.last.confidence < 2
    /\ gest.last.nRaw = 21 /\ gest.last.nProjected = 21
    /\ gest.history # <<>>

\* C12: when palm detection yields zero regions for a frame, inference for
\* that frame succeeds, the landmark network is not run, and the emitted
\* GestureResult has confidence 0.0, landmarks None and detail None.
C12_NoRegionsEmptyResult ==
    (gest.last.op = "infer" /\ gest.last.regions = "empty") =>
        /\ gest.last.inferOk
        /\ ~gest.last.landmarkRun
        /\ gest.last.confidence = 0
        /\ ~gest.last.landmarks
        /\ ~gest.last.detail

C12_Witness ==
    /\ gest.last.op = "infer" /\ gest.last.regions = "empty"
    /\ gest.last.inferOk
    /\ gest.history # <<>>

\* ------------------------------------------------ palm detector in isolation
\* One PalmDetector::detect call followed by what OrtEngine::infer makes of
\* its result.  PalmDetectorConfig has public fields, so top_k and
\* nms_threshold are inputs.
PalmInit ==
    /\ PipeInit
    /\ revision = "pipeline"
    /\ prep = NoPrep /\ gest = NoGest /\ OthersIdle
    /\ \E d \in PalmDims, pad \in PadChoices, t \in ThresholdChoices,
          k \in 0..MaxTopK, n \in 0..MaxAnchors, shape \in ShapeChoices :
         /\ ShapeError(shape) => (d = <<1, 1>> /\ pad = <<0, 0>> /\ t = 3
                                    /\ k = MaxTopK /\ n = MaxAnchors)
         /\ palm = [NoPalm EXCEPT !.stage = "start", !.w = d[1], !.h = d[2],
                                  !.pad = pad, !.threshold = t, !.topK = k,
                                  !.shape = shape, !.anchors = n]

\* detect / decode_palm_outputs up to the anchor loop: every shape error is
\* returned as Err.
PalmShape ==
    /\ palm.stage = "start"
    /\ palm' = [palm EXCEPT
                  !.stage = IF ShapeError(palm.shape) THEN "err" ELSE "loop"]
    /\ UNCHANGED <<pipeVars, prep, gest, pose, xf, boot, cam, live>>

\* decode_palm_outputs, one iteration of  for anchor_idx in 0..anchors
PalmAnchor ==
    /\ palm.stage = "loop"
    /\ palm.idx < palm.anchors
    /\ \E a \in AnchorOutputs :
         palm' = [palm EXCEPT
                    !.idx = @ + 1,
                    !.candidates =
                        @ \o DecodeAnchor(a, palm.w, palm.h, palm.pad[1],
                                          palm.pad[2])]
    /\ UNCHANGED <<pipeVars, prep, gest, pose, xf, boot, cam, live>>

\* decode_palm_outputs after the loop: nms(&candidates, ..) and one
\* PalmRegion per kept index; detect returns Ok(detections).
PalmNms ==
    /\ palm.stage = "loop"
    /\ palm.idx = palm.anchors
    /\ LET kept == Nms(palm.candidates, palm.threshold, palm.topK) IN
       palm' = [palm EXCEPT
                  !.stage = "decoded",
                  !.detections =
                      [k \in 1..Len(kept) |-> palm.candidates[kept[k]]]]
    /\ UNCHANGED <<pipeVars, prep, gest, pose, xf, boot, cam, live>>

\* OrtEngine::infer: the detect result with its error replaced by an empty
\* list; an empty list returns Ok at once, otherwise pick_primary_region
\* selects the region to crop and the landmark stage succeeds or fails.
PalmInfer ==
    /\ palm.stage \in {"decoded", "err"}
    /\ LET regions == RegionsSeenByInfer(palm.stage = "decoded",
                                         palm.detections) IN
       \E ok \in (IF regions = <<>> THEN {TRUE} ELSE BOOLEAN) :
         palm' = [palm EXCEPT
                    !.stage = "inferred",
                    !.regions = regions,
                    !.primary = PickPrimaryRegion(regions),
                    !.inferOk = ok]
    /\ UNCHANGED <<pipeVars, prep, gest, pose, xf, boot, cam, live>>

PalmNext == PalmShape \/ PalmAnchor \/ PalmNms \/ PalmInfer

SpecPalm == PalmInit /\ [][PalmNext]_vars

\* the detections of a finished decode_palm_outputs call
Decoded == palm.stage \in {"decoded", "inferred"}

\* C13: for every candidate list, nms_threshold and top_k, no two distinct
\* boxes in the NMS output have IoU >= nms_threshold.
C13_NmsNoOverlap ==
    Decoded =>
        \A i, j \in 1..Len(palm.detections) :
            i # j => ~IouAtLeast(palm.detections[i].bbox,
                                 palm.detections[j].bbox, palm.threshold)

\* two candidates that overlap by half; one of them was suppressed
C13_Witness ==
    /\ Decoded
    /\ palm.topK >= 2
    /\ Len(palm.candidates) = 2 /\ Len(palm.detections) = 1
    /\ LET o == Iou(palm.candidates[1].bbox, palm.candidates[2].bbox) IN
       o.num > 0 /\ o.num < o.den

\* C14 as stated: for every candidate list and every top_k, 0 included, the
\* NMS output has at most top_k entries.
C14_NmsAtMostTopK ==
    Decoded => Len(palm.detections) <= palm.topK

\* a coordinate lies in [0, limit - 1]
Inside(x, limit) == ~x.nan /\ 0 <= x.v /\ x.v <= limit - 1

\* C15 as stated: every PalmRegion returned by palm-output decoding has x1
\* and x2 in [0, width-1] and y1 and y2 in [0, height-1], for every anchor
\* delta, letterbox padding and frame size.
C15_BoxInsideFrame ==
    Decoded =>
        \A k \in 1..Len(palm.detections) :
            LET b == palm.detections[k].bbox IN
            /\ Inside(b[1], palm.w) /\ Inside(b[3], palm.w)
            /\ Inside(b[2], palm.h) /\ Inside(b[4], palm.h)

\* C16 as stated: every candidate that enters NMS, and so every PalmRegion
\* returned, has a bbox with x2 > x1 and y2 > y1.
C16_NoDegenerateBox ==
    /\ \A k \in 1..Len(palm.candidates) :
          LET b == palm.candidates[k].bbox IN
          FLt(b[1], b[3]) /\ FLt(b[2], b[4])
    /\ \A k \in 1..Len(palm.detections) :
          LET b == palm.detections[k].bbox IN
          FLt(b[1], b[3]) /\ FLt(b[2], b[4])

\* C17 as stated: pick_primary_region returns None for an empty list and
\* otherwise a region of maximum score, the first one in the list when
\* several share the maximum.
C17_PrimaryIsFirstMaximum ==
    palm.stage = "inferred" =>
        IF palm.regions = <<>> THEN palm.primary = 0
        ELSE /\ palm.primary \in 1..Len(palm.regions)
             /\ \A j \in 1..Len(palm.regions) :
                   palm.regions[j].score <= palm.regions[palm.primary].score
             /\ \A j \in 1..(palm.primary - 1) :
                   palm.regions[j].score < palm.regions[palm.primary].score

\* C18 as stated: a detector output with fewer than 2 tensors, a box or
\* score tensor of rank < 3, a feature dimension < 18 or differing anchor
\* counts is reported as an error, and the error is never replaced by a
\* default such as an empty region list.
C18_ShapeErrorSurfaced ==
    ShapeError(palm.shape) =>
        /\ palm.stage \notin {"loop", "decoded"}
        /\ palm.stage = "inferred" => ~palm.inferOk

\* ---------------------------------------------------- motion tracker claims
\* every sample of the window has the same (x, y)
SamePosition(h) ==
    \A i, j \in 1..Len(h) : h[i].x = h[j].x /\ h[i].y = h[j].y

\* C19: MotionTracker::update returns Steady when the window holds fewer
\* than 3 samples after eviction, and when every sample in the window has
\* the same (x, y) position.
C19_SteadyWhenFewOrStill ==
    gest.last.detail =>
        ((Len(gest.history) < 3 \/ SamePosition(gest.history))
            => gest.last.motion = "Steady")

\* three samples at one position: the window passes the length test
C19_Witness ==
    /\ gest.last.detail
    /\ Len(gest.history) >= 3
    /\ SamePosition(gest.history)
    /\ gest.last.motion = "Steady"

\* age of a sample at time `now`
Age(s, now) == DurationSince(now, s.time)

\* C20: after every MotionTracker::update (timestamps never decrease) the
\* window ends with the sample just appended, is the old window plus that
\* sample without some front samples (arrival order), holds no sample more
\* than MOTION_WINDOW older than the newest, and lost only samples older
\* than that: one exactly MOTION_WINDOW old is retained.
C20_WindowAfterUpdate ==
    [][gest'.last.detail =>
         LET new == gest'.history
             now == gest'.clock
         IN  /\ new # <<>>
             /\ new[Len(new)].time = now
             /\ \A i \in 1..Len(new) : Age(new[i], now) <= MOTION_WINDOW
             /\ \E k \in 0..Len(gest.history) :
                   /\ new = SubSeq(Append(gest.history, new[Len(new)]),
                                   k + 1, Len(gest.history) + 1)
                   /\ \A i \in 1..k :
                         Age(gest.history[i], now) > MOTION_WINDOW]_vars

\* the oldest sample of the window is exactly MOTION_WINDOW old
C20_Witness ==
    /\ gest.last.detail
    /\ Len(gest.history) >= 2
    /\ Age(gest.history[1], gest.clock) = MOTION_WINDOW

\* ------------------------------------------------ motion precedence claims
\* normalized spread of one coordinate over the window > pct / 100, with
\* the normalizer max(average span, 1)
SpreadAbove(q, h, pct) ==
    (SeqMax(q) - SeqMin(q)) * 100 * Len(h) > pct * Max2(SumSpan(h), Len(h))

WindowXs == [i \in 1..Len(gest.history) |-> gest.history[i].x]
WindowYs == [i \in 1..Len(gest.history) |-> gest.history[i].y]
WindowChanges(q) ==
    DirectionChanges(q, Max2(SumSpan(gest.history), Len(gest.history)),
                     Len(gest.history))

FanningCase ==
    /\ SpreadAbove(WindowXs, gest.history, 55)
    /\ WindowChanges(WindowXs) >= 2
    /\ gest.last.primary \in {"Palm", "Four", "Unknown"}
VerticalWaveCase ==
    /\ SpreadAbove(WindowYs, gest.history, 55)
    /\ WindowChanges(WindowYs) >= 2
MovingCase ==
    \/ SpreadAbove(WindowXs, gest.history, 25)
    \/ SpreadAbove(WindowYs, gest.history, 25)

\* C21: with at least 3 samples in the window the motion is Fanning iff
\* x-spread > 0.55, x direction changes >= 2 and primary is Palm, Four or
\* Unknown; otherwise VerticalWave iff y-spread > 0.55 and y direction
\* changes >= 2; otherwise Moving iff either spread > 0.25; otherwise
\* Steady.  Fanning is never reported for another primary gesture.
C21_MotionPrecedence ==
    (gest.last.detail /\ Len(gest.history) >= 3) =>
        /\ gest.last.motion =
              (IF FanningCase THEN "Fanning"
               ELSE IF VerticalWaveCase THEN "VerticalWave"
               ELSE IF MovingCase THEN "Moving"
               ELSE "Steady")
        /\ gest.last.motion = "Fanning" =>
              gest.last.primary \in {"Palm", "Four", "Unknown"}

\* a wide side-to-side movement with two reversals, seen once with a fist:
\* every Fanning condition but the primary gesture holds
C21_Witness ==
    /\ gest.last.detail /\ Len(gest.history) >= 4
    /\ SpreadAbove(WindowXs, gest.history, 55)
    /\ WindowChanges(WindowXs) >= 2
    /\ gest.last.primary = "Fist"
    /\ gest.last.motion = "Moving"

\* C27: a call that is gated out (confidence < 0.2 or fewer than 21
\* landmarks) leaves the motion window unchanged: nothing appended,
\* nothing evicted, however much time has passed.
C27_GatedCallKeepsWindow ==
    [][(gest'.calls = gest.calls + 1
          /\ (gest'.last.confidence < 2 \/ gest'.last.nRaw < 21
                \/ gest'.last.nProjected < 21))
          => gest'.history = gest.history]_vars

\* a gated call made more than MOTION_WINDOW after the oldest sample: the
\* sample an accepted call would have evicted is still there
C27_Witness ==
    /\ gest.last.op \in {"classify", "build"}
    /\ ~gest.last.detail
    /\ gest.history # <<>>
    /\ Age(gest.history[1], gest.clock) > MOTION_WINDOW

\* --------------------------------------------------------- greedy NMS claim
\* the candidate indices nms keeps for the decoded candidate list
KeptIndices ==
    LET kept == Nms(palm.candidates, palm.threshold, palm.topK) IN
    {kept[i] : i \in 1..Len(kept)}

ReadOptionalOne(nOutputs, i, value) ==
    IF nOutputs > i /\ value >= 0 THEN value ELSE 10

ReadOptional(nOutputs, i, value) ==
    IF nOutputs > i /\ value >= 0 THEN value ELSE 0

\* (confidence * selected.score).clamp(0.0, 1.0)
CombinedConfidence(confidence, score) ==
    Max2(0, Min2((confidence * score) \div 10, 10))

\* handedness_from_score(score)
HandednessFromScore(score) ==
    IF score >= 5 THEN "Right"
    ELSE IF score > 0 THEN "Left"
    ELSE "Unknown"

\* class_to_gesture: the 34 entries 0..33 (those the check draws are
\* named, the rest stand as "Other")
ClassToGesture(idx) ==
    IF idx \notin 0..33 THEN "Unknown"
    ELSE IF idx = 2 THEN "Fist"
    ELSE IF idx = 3 THEN "Four"
    ELSE IF idx = 16 THEN "Palm"
    ELSE IF idx = 33 THEN "XSign"
    ELSE "Other"

\* detect_gesture_with_model: Unknown without a session, when the session
\* run (or the input normalisation) fails (class -1), or when the arg-max
\* index has no table entry.
DetectGestureWithModel(session, class) ==
    IF ~session THEN "Unknown"
    ELSE IF class < 0 THEN "Unknown"
    ELSE ClassToGesture(class)

\* what the landmark session and the classifier session deliver
PoseOutputs == 0..3
PoseScalars == {-1, 0, 4, 10}
PoseClasses == {-1, 3, 16, 33, 34}
RegionScores == {5, 10}

PoseInit ==
    /\ PipeInit
    /\ revision = "pipeline"
    /\ prep = NoPrep /\ gest = NoGest /\ palm = NoPalm
    /\ xf = NoXf /\ boot = NoBoot /\ cam = NoCam /\ live = NoLive
    /\ \E regions \in BOOLEAN, n \in PoseOutputs, c \in PoseScalars,
          hd \in PoseScalars, session \in BOOLEAN, class \in PoseClasses :
         \* one representative where the input is never read
         /\ ~regions => (n = 0 /\ c = 0 /\ hd = 0 /\ class = -1)
         /\ n = 0 => (c = 0 /\ hd = 0 /\ class = -1 /\ session)
         /\ n <= 1 => c = 0
         /\ n <= 2 => hd = 0
         /\ pose = [NoPose EXCEPT !.stage = "start", !.regions = regions,
                                  !.nOutputs = n, !.conf = c, !.hand = hd,
                                  !.session = session, !.class = class]

\* OrtEngine::infer: an empty region list returns Ok(confidence 0.0, no
\* landmarks); no session output is an Err; otherwise confidence and
\* handedness are read from outputs[1] and outputs[2] when they exist.
PoseInfer ==
    /\ pose.stage = "start"
    /\ \E score \in RegionScores :
         pose' =
           IF ~pose.regions
           THEN [pose EXCEPT !.stage = "inferred", !.inferOk = TRUE]
           ELSE IF pose.nOutputs < 1
           THEN [pose EXCEPT !.stage = "failed"]
           ELSE [pose EXCEPT
                   !.stage = "inferred", !.inferOk = TRUE,
                   !.landmarkRun = TRUE,
                   !.confidence =
                       CombinedConfidence(
                           ReadOptional(pose.nOutputs, 1, pose.conf), score),
                   !.handedness = ReadOptional(pose.nOutputs, 2, pose.hand)]
    /\ UNCHANGED <<pipeVars, prep, gest, palm, xf, boot, cam, live>>

\* run_worker_loop, Ok arm: build_gesture_result(output, ..) and
\* result_tx.try_send(gesture); classify runs when confidence >= 0.2.
PoseBuild ==
    /\ pose.stage = "inferred"
    /\ LET classified ==
              /\ HasDetection(pose.confidence)
              /\ ~ClassifyGated(pose.confidence,
                                IF pose.landmarkRun THEN 21 ELSE 0,
                                IF pose.landmarkRun THEN 21 ELSE 0)
       IN  pose' = [pose EXCEPT
                      !.stage = "built",
                      !.emitted = TRUE,
                      !.detail = classified,
                      !.primary =
                          IF classified
                          THEN DetectGestureWithModel(pose.session,
                                                      pose.class)
                          ELSE "none",
                      !.side =
                          IF classified
                          THEN HandednessFromScore(pose.handedness)
                          ELSE "none"]
    /\ UNCHANGED <<pipeVars, prep, gest, palm, xf, boot, cam, live>>

PoseNext == PoseInfer \/ PoseBuild

SpecPose == PoseInit /\ [][PoseNext]_vars

\* C22: missing optional data is never an error and never drops the frame:
\* an absent (or unreadable) confidence or handedness output is read as
\* 0.0, and handedness 0.0 maps to Unknown; an unavailable classifier or an
\* arg-max index outside the 34-entry table gives primary Unknown; an empty
\* detection list gives an empty result.
C22_MissingDataDefaults ==
    LET confAbsent == pose.nOutputs <= 1 \/ pose.conf < 0
        handAbsent == pose.nOutputs <= 2 \/ pose.hand < 0
    IN
    /\ (pose.stage \in {"inferred", "built"} /\ pose.regions) =>
          /\ confAbsent => pose.confidence = 0
          /\ handAbsent => pose.handedness = 0
    /\ (pose.regions /\ pose.nOutputs >= 1) => pose.stage # "failed"
    /\ pose.stage = "built" =>
          /\ pose.emitted
          /\ (pose.detail /\ pose.handedness = 0) => pose.side = "Unknown"
          /\ (pose.detail /\ (~pose.session \/ pose.class \notin 0..33))
                => pose.primary = "Unknown"
          /\ ~pose.regions =>
                /\ pose.inferOk /\ pose.confidence = 0
                /\ ~pose.landmarkRun /\ ~pose.detail

\* a confident hand whose handedness output is missing and whose arg-max
\* class has no table entry
C22_Witness ==
    /\ pose.stage = "built" /\ pose.detail
    /\ pose.nOutputs = 2
    /\ pose.session /\ pose.class = 34
    /\ pose.side = "Unknown" /\ pose.primary = "Unknown"

\* ================================================ rotated crop in isolation
\* prepare_rotated_crop and CropTransform::project.  The angle is a whole
\* number of quarter turns, so cos and sin are exact; frame coordinates are
\* kept in units of 1 / (2 * output_size) pixel, in which every product
\* below is a whole number.
Cos(turns) == IF turns = 0 THEN 1 ELSE IF turns = 2 THEN -1 ELSE 0
Sin(turns) == IF turns = 1 THEN 1 ELSE IF turns = 3 THEN -1 ELSE 0

\* frame units per pixel
Unit(size) == 2 * size

\* prepare_rotated_crop, loop body for destination pixel (x, y):
\*   dx = (x + 0.5 - half) * scale, dy likewise,
\*   src_x = center.0 + dx * cos - dy * sin
\*   src_y = center.1 + dx * sin + dy * cos
SampleCoord(center, side, turns, size, x, y) ==
    LET dx == (2 * x + 1 - size) * side
        dy == (2 * y + 1 - size) * side
    IN  <<Unit(size) * center[1] + dx * Cos(turns) - dy * Sin(turns),
          Unit(size) * center[2] + dx * Sin(turns) + dy * Cos(turns)>>

\* x.clamp(0.0, (w.saturating_sub(1)) as f32), in frame units
ClampToFrame(v, limit, size) ==
    Max2(0, Min2(v, Unit(size) * Max2(limit - 1, 0)))

\* CropTransform::project(x, y); the crop coordinate arrives in half
\* pixels (x2 = 2 * x):
\*   dx = (x - half) * scale, ox = center.0 + dx * cos - dy * sin, ..
\*   (ox.clamp(0, orig_w - 1), oy.clamp(0, orig_h - 1))
ProjectMirrored(center, side, turns, size, w, h, x2, y2) ==
    LET dx == (x2 - size) * side
        dy == (y2 - size) * side
    IN  <<ClampToFrame(Unit(size) * center[1] + dx * Cos(turns)
                         + dy * Sin(turns), w, size),
          ClampToFrame(Unit(size) * center[2] - dx * Sin(turns)
                         + dy * Cos(turns), h, size)>>

Project(center, side, turns, size, w, h, x2, y2) ==
    LET dx == (x2 - size) * side
        dy == (y2 - size) * side
    IN  <<ClampToFrame(Unit(size) * center[1] + dx * Cos(turns)
                         - dy * Sin(turns), w, size),
          ClampToFrame(Unit(size) * center[2] + dx * Sin(turns)
                         + dy * Cos(turns), h, size)>>

\* the corner pixels of the crop and, when there is one, its centre pixel
CropPositions(size) ==
    {<<0, 0>>, <<size - 1, 0>>, <<0, size - 1>>, <<size - 1, size - 1>>}
      \cup (IF size % 2 = 1 THEN {<<(size - 1) \div 2, (size - 1) \div 2>>}
            ELSE {})

XfDims == {<<3, 2>>, <<1, 1>>}
XfCenters == {<<0, 0>>, <<1, 1>>, <<2, 1>>}
XfSides == 1..3
XfTurns == 0..3
XfSizes == 1..3

XfInit ==
    /\ PipeInit
    /\ revision = "pipeline"
    /\ prep = NoPrep /\ gest = NoGest /\ palm = NoPalm
    /\ pose = NoPose /\ boot = NoBoot /\ cam = NoCam /\ live = NoLive
    /\ \E d \in XfDims, c \in XfCenters, side \in XfSides,
          turns \in XfTurns, size \in XfSizes :
         xf = [NoXf EXCEPT !.stage = "start", !.w = d[1], !.h = d[2],
                           !.center = c, !.side = side, !.turns = turns,
                           !.size = size]

\* prepare_rotated_crop: the source coordinate sampled for one destination
\* pixel
XfSample ==
    /\ xf.stage = "start"
    /\ \E p \in CropPositions(xf.size) :
         xf' = [xf EXCEPT
                  !.stage = "sampled",
                  !.pos = p,
                  !.sampled = SampleCoord(xf.center, xf.side, xf.turns,
                                          xf.size, p[1], p[2])]
    /\ UNCHANGED <<pipeVars, prep, gest, palm, pose, boot, cam, live>>

\* transform.project at the crop coordinate of that pixel's sample point,
\* (x + 0.5, y + 0.5)
XfProject ==
    /\ xf.stage = "sampled"
    /\ xf' = [xf EXCEPT
                !.stage = "projected",
                !.projected = Project(xf.center, xf.side, xf.turns, xf.size,
                                      xf.w, xf.h, 2 * xf.pos[1] + 1,
                                      2 * xf.pos[2] + 1)]
    /\ UNCHANGED <<pipeVars, prep, gest, palm, pose, boot, cam, live>>

XfNext == XfSample \/ XfProject

SpecXf == XfInit /\ [][XfNext]_vars

\* the sampled coordinate lies inside the frame
SampledInFrame ==
    /\ 0 <= xf.sampled[1] /\ xf.sampled[1] <= Unit(xf.size) * (xf.w - 1)
    /\ 0 <= xf.sampled[2] /\ xf.sampled[2] <= Unit(xf.size) * (xf.h - 1)

\* C23 as stated: for the corners and the centre of the crop, project
\* returns exactly the frame coordinate prepare_rotated_crop samples there,
\* for every crop centre, side, angle and frame size.
C23_ProjectIsSampledCoord ==
    xf.stage = "projected" => xf.projected = xf.sampled

\* C23 amended: project returns the sampled frame coordinate clamped to
\* [0, width-1] x [0, height-1]; it equals the sampled coordinate whenever
\* that lies inside the frame.
C23_ProjectIsClampedSampledCoord ==
    xf.stage = "projected" =>
        /\ xf.projected[1] = ClampToFrame(xf.sampled[1], xf.w, xf.size)
        /\ xf.projected[2] = ClampToFrame(xf.sampled[2], xf.h, xf.size)
        /\ SampledInFrame => xf.projected = xf.sampled

\* a corner of a crop turned by a quarter turn, sampled inside the frame
\* away from the crop centre
C23_Witness ==
    /\ xf.stage = "projected"
    /\ xf.turns = 1 /\ xf.size = 3
    /\ xf.pos = <<0, 0>>
    /\ SampledInFrame
    /\ xf.sampled # <<Unit(xf.size) * xf.center[1],
                      Unit(xf.size) * xf.center[2]>>
    /\ xf.projected = xf.sampled

\* ============================================= worker start-up in isolation
\* pipeline/recognizer/ort.rs start_worker, thread body, up to the first
\* recv_latest_frame of run_worker_loop.
\* ensure_handpose_estimator_model_ready: Ok at once when the file exists;
\* otherwise create_dir_all and download_to_path (reqwest GET of
\* HANDPOSE_ESTIMATOR_MODEL_URL).  `step` is how far the call gets.
EnsureSteps == {"mkdirErr", "downloadErr", "ok"}

EnsureHandpose(b, step) ==
    IF b.handposeFile THEN [b EXCEPT !.stage = "palm"]
    ELSE IF step = "mkdirErr"
    THEN [b EXCEPT !.stage = "done", !.error = "handpose"]
    ELSE IF step = "downloadErr"
    THEN [b EXCEPT !.stage = "done", !.error = "handpose",
                   !.downloads = @ + 1]
    ELSE [b EXCEPT !.stage = "palm", !.handposeFile = TRUE,
                   !.downloads = @ + 1]

\* ensure_palm_detector_model_ready: Ok at once when the file exists;
\* otherwise create_dir_all, then fs::copy of the bundled model when that
\* exists, else download_to_path (PALM_DETECTOR_MODEL_URL).
EnsurePalm(b, step) ==
    IF b.palmFile THEN [b EXCEPT !.stage = "load"]
    ELSE IF step = "mkdirErr"
    THEN [b EXCEPT !.stage = "done", !.error = "palm"]
    ELSE IF b.bundledFile
    THEN IF step = "downloadErr"   \* here: the copy fails
         THEN [b EXCEPT !.stage = "done", !.error = "palm",
                        !.copies = @ + 1]
         ELSE [b EXCEPT !.stage = "load", !.palmFile = TRUE,
                        !.copies = @ + 1]
    ELSE IF step = "downloadErr"
    THEN [b EXCEPT !.stage = "done", !.error = "palm",
                   !.downloads = @ + 1]
    ELSE [b EXCEPT !.stage = "load", !.palmFile = TRUE,
                   !.downloads = @ + 1]

\* thread::spawn(move || { .. }) with the model files as they are on disk
BootInit ==
    /\ PipeInit
    /\ revision = "pipeline"
    /\ prep = NoPrep /\ gest = NoGest /\ palm = NoPalm
    /\ pose = NoPose /\ xf = NoXf /\ cam = NoCam /\ live = NoLive
    /\ \E hp \in BOOLEAN, pd \in BOOLEAN, bundled \in BOOLEAN,
          gc \in BOOLEAN :
         boot = [NoBoot EXCEPT !.stage = "handpose", !.handposeFile = hp,
                               !.palmFile = pd, !.bundledFile = bundled,
                               !.classifierFile = gc]

BootEnsureHandpose ==
    /\ boot.stage = "handpose"
    /\ \E step \in EnsureSteps : boot' = EnsureHandpose(boot, step)
    /\ UNCHANGED <<pipeVars, prep, gest, palm, pose, xf, cam, live>>

BootEnsurePalm ==
    /\ boot.stage = "palm"
    /\ \E step \in EnsureSteps : boot' = EnsurePalm(boot, step)
    /\ UNCHANGED <<pipeVars, prep, gest, palm, pose, xf, cam, live>>

\* OrtEngine::new(&handpose_estimator_model_path, &palm_detector_model_path)
BootLoad ==
    /\ boot.stage = "load"
    /\ \E ok \in BOOLEAN :
         boot' = IF ok THEN [boot EXCEPT !.stage = "classifier"]
                 ELSE [boot EXCEPT !.stage = "done", !.error = "load"]
    /\ UNCHANGED <<pipeVars, prep, gest, palm, pose, xf, cam, live>>

\* run_worker_loop: GestureClassifier::new() -> load_model_and_classes:
\* ensure_gesture_classifier_model_ready(&model_path, ..) (Err gives no
\* session; what it does for a missing file is left open: the file may or
\* may not be there afterwards), then Session::builder()
\* .commit_from_file(&model_path).  The loop is entered with or without a
\* session.
BootClassifier ==
    /\ boot.stage = "classifier"
    /\ \E ready \in BOOLEAN, loaded \in BOOLEAN :
         /\ boot.classifierFile => ready
         /\ boot' = [boot EXCEPT !.stage = "loop",
                                 !.classifierFile = ready,
                                 !.classifier = ready /\ loaded]
    /\ UNCHANGED <<pipeVars, prep, gest, palm, pose, xf, cam, live>>

BootNext ==
    BootEnsureHandpose \/ BootEnsurePalm \/ BootLoad \/ BootClassifier

SpecBoot == BootInit /\ [][BootNext]_vars

\* C24 as stated: the recognition stage performs no network I/O in any
\* run and never itself starts a model download, whether or not the model
\* file is present when the stage starts.
C24_NoDownloadByWorker == boot.downloads = 0

\* ---------------------------------------------- order of processed frames
\* Frame ids are handed out by the capture loop in the order the frames are
\* built, so "earlier in the capture sequence" is "smaller id".
Inferred(i) == fate[i] \in {"inferred", "failed"}

\* C28: the frames the recognizer runs inference on are a subsequence of the
\* frames capture produced: whenever inference is about to run, the frame
\* in hand is a captured frame fresh from the queue, it has not been
\* processed before, and it is later in the capture sequence than every
\* frame processed so far.
C28_ProcessedInCaptureOrder ==
    wPc = "infer" =>
        /\ wFrame.id \in FrameIds
        /\ srcStream[wFrame.id] \in StreamIds
        /\ fate[wFrame.id] = "held"
        /\ \A i \in FrameIds : Inferred(i) => i < wFrame.id

\* frame a was processed, the later frame b was lost on the way, and the
\* still later frame c is in the worker's hands: a proper subsequence.
C28_Witness ==
    \E a, b, c \in FrameIds :
        /\ a < b /\ b < c
        /\ Inferred(a)
        /\ fate[b] \in {"sendDropped", "drainDiscarded"}
        /\ wPc = "infer" /\ wFrame.id = c

\* ------------------------------------------------ end of the worker loop
LoopPcs == {"recv", "drain", "infer", "send"}

\* C29: the worker loop ends only in its blocking receive, with the frame
\* queue empty and every frame sender (the AppView's and the capture
\* threads' clones) dropped; so a frame left in the queue is received and
\* processed first, and while a sender lives the loop does not end.  Once
\* the senders are gone the loop is never blocked, and when it has ended no
\* frame is left queued or in the worker's hands.
C29_LoopEndsWhenDisconnected ==
    /\ [][(wPc \in LoopPcs /\ wPc' = "done")
            => /\ wPc = "recv"
               /\ frameQ = <<>>
               /\ ~frameTxAlive
               /\ \A s \in StreamIds : ~CapAlive(s)]_vars
    /\ []((wPc \in LoopPcs /\ ~frameTxAlive
             /\ \A s \in StreamIds : ~CapAlive(s))
            => ENABLED Worker)
    /\ []((wPc = "done" /\ ~startup.failed)
            => \A i \in FrameIds : fate[i] \notin {"queued", "held"})

\* every sender is gone, a frame is still in the queue and the worker is
\* at its blocking receive: it must take the frame, not end.
C29_Witness ==
    /\ wPc = "recv"
    /\ frameQ # <<>>
    /\ ~frameTxAlive
    /\ \A s \in StreamIds : ~CapAlive(s)

\* ===================================================== camera lifecycle ==
\* AppView::switch_camera with stop_camera_stream, start_camera_for_device,
\* CameraStream::stop and the thread start_camera_stream spawns.  A capture
\* thread is "open" (its own build_camera), then alternates "check" (the
\* stop-flag test) and "frame" (one loop body) until it is "done".
CameraIdxs == {0, 1}            \* indices of available_cameras

RequestIdxs == CameraIdxs \cup {2}   \* 2: idx >= available_cameras.len()

ThreadIds == 1..Len(cam.threads)

ThreadAlive(t) == cam.threads[t] # "done"

\* handle.join() returns once the thread's closure has returned.
HandleJoinedEarly(threads, t) == TRUE

HandleJoined(threads, t) == threads[t] = "done"

\* AppView::new: selected_camera_idx is Some(0) when a camera is available.
CamInit ==
    /\ PipeInit /\ prep = NoPrep /\ gest = NoGest /\ palm = NoPalm
    /\ pose = NoPose /\ xf = NoXf /\ boot = NoBoot /\ live = NoLive
    /\ cam = [NoCam EXCEPT !.stage = "on", !.requested = -1]

\* switch_camera(idx): an index out of range sets camera_error and returns;
\* otherwise start_camera_for_device begins with stop_camera_stream, which
\* takes the current stream and stores true in its stop flag.
SwitchCamera(idx) ==
    /\ cam.stage = "on" /\ cam.pc = "idle"
    /\ cam.calls < MaxSwitches
    /\ IF idx \notin CameraIdxs
         THEN cam' = [cam EXCEPT !.cameraError = TRUE, !.last = "range",
                                 !.requested = idx,
                                 !.before = cam.selectedCameraIdx,
                                 !.calls = @ + 1]
         ELSE IF cam.cameraStream # 0
         THEN cam' = [cam EXCEPT !.stop[cam.cameraStream] = TRUE,
                                 !.stopping = cam.cameraStream,
                                 !.cameraStream = 0,
                                 !.requested = idx,
                                 !.before = cam.selectedCameraIdx,
                                 !.calls = @ + 1,
                                 !.pc = "join"]
         ELSE cam' = [cam EXCEPT !.requested = idx,
                                 !.before = cam.selectedCameraIdx,
                                 !.calls = @ + 1,
                                 !.pc = "start"]
    /\ UNCHANGED <<pipeVars, prep, gest, palm, pose, xf, boot, live>>

\* CameraStream::stop: let _ = handle.join();
CamJoin ==
    /\ cam.pc = "join"
    /\ HandleJoined(cam.threads, cam.stopping)
    /\ cam' = [cam EXCEPT !.stopping = 0, !.pc = "start"]
    /\ UNCHANGED <<pipeVars, prep, gest, palm, pose, xf, boot, live>>

\* start_camera_stream: build_camera(index.clone())? fails before any thread
\* is spawned; switch_camera's Err arm only sets camera_error.
CamStartFail ==
    /\ cam.pc = "start"
    /\ cam' = [cam EXCEPT !.cameraError = TRUE, !.last = "failed",
                          !.pc = "idle"]
    /\ UNCHANGED <<pipeVars, prep, gest, palm, pose, xf, boot, live>>

\* start_camera_stream spawns the thread with a fresh stop flag; the map
\* closure stores the stream; switch_camera's Ok arm selects idx.
CamStartOk ==
    /\ cam.pc = "start"
    /\ cam' = [cam EXCEPT !.threads = Append(@, "open"),
                          !.stop = Append(@, FALSE),
                          !.cameraStream = Len(cam.threads) + 1,
                          !.selectedCameraIdx = cam.requested,
                          !.cameraError = FALSE,
                          !.last = "ok",
                          !.pc = "idle"]
    /\ UNCHANGED <<pipeVars, prep, gest, palm, pose, xf, boot, live>>

\* the spawned closure: build_camera, then while !stop_flag.load(..) { .. }
CamThreadStep(t) ==
    /\ cam.threads[t] # "done"
    /\ \E ok \in BOOLEAN :
         cam' = [cam EXCEPT
                   !.threads[t] =
                       CASE @ = "open" -> IF ok THEN "check" ELSE "done"
                         [] @ = "check" ->
                              IF cam.stop[t] THEN "done" ELSE "frame"
                         [] OTHER -> "check"]
    /\ UNCHANGED <<pipeVars, prep, gest, palm, pose, xf, boot, live>>

CamNext ==
    \/ \E idx \in RequestIdxs : SwitchCamera(idx)
    \/ CamJoin
    \/ CamStartFail
    \/ CamStartOk
    \/ \E t \in ThreadIds : CamThreadStep(t)

SpecCam == CamInit /\ [][CamNext]_vars

\* C30: at most one capture thread is alive at any time; when
\* start_camera_stream is about to run, the previous stream has been taken,
\* stopped and joined, so no capture thread is alive; and after a failed
\* start no capture thread is running, no stream is stored and the selected
\* camera index is the one selected before the call.
C30_OneCaptureThread ==
    /\ Cardinality({t \in ThreadIds : ThreadAlive(t)}) <= 1
    /\ cam.pc = "start" =>
           /\ cam.cameraStream = 0
           /\ \A t \in ThreadIds : ~ThreadAlive(t)
    /\ (cam.pc = "idle" /\ cam.last = "failed") =>
           /\ cam.cameraStream = 0
           /\ \A t \in ThreadIds : ~ThreadAlive(t)
           /\ cam.selectedCameraIdx = cam.before

\* a camera was running, a switch to the other camera stopped and joined
\* its thread and then failed to start the new one.
C30_Witness ==
    /\ cam.pc = "idle" /\ cam.last = "failed"
    /\ Len(cam.threads) >= 2
    /\ cam.requested \in CameraIdxs
    /\ cam.requested # cam.selectedCameraIdx

\* ================================== capture against the drain loop =====
\* The capture loop of start_camera_stream and the worker's
\* recv_latest_frame on the capacity-1 frame queue, with a camera that never
\* runs out of frames.  Frames carry a label that cycles through
\* 1..MaxLabels; the AppView keeps its Sender<Frame>, so the queue is never
\* disconnected here.
FrameLabels == 1..MaxLabels

NextLabel(l) == (l % MaxLabels) + 1

LiveInit ==
    /\ PipeInit /\ prep = NoPrep /\ gest = NoGest /\ palm = NoPalm
    /\ pose = NoPose /\ xf = NoXf /\ boot = NoBoot /\ cam = NoCam
    /\ live = [NoLive EXCEPT !.stage = "on", !.capPc = "check",
                             !.wPc = "recv", !.next = 1]

\* while !stop_flag.load(Ordering::Relaxed)
LiveCapCheck ==
    /\ live.capPc = "check"
    /\ live' = [live EXCEPT !.capPc = IF live.stop THEN "done" ELSE "grab"]
    /\ UNCHANGED <<pipeVars, prep, gest, palm, pose, xf, boot, cam>>

\* camera.frame() and the RGBA conversion: Err logs and continues, Ok
\* builds the Frame.
LiveCapGrab ==
    /\ live.capPc = "grab"
    /\ \E ok \in BOOLEAN :
         live' = [live EXCEPT !.capPc = IF ok THEN "send" ELSE "check"]
    /\ UNCHANGED <<pipeVars, prep, gest, palm, pose, xf, boot, cam>>

\* let _ = frame_tx.try_send(frame);
LiveCapSend ==
    /\ live.capPc = "send"
    /\ live' = [live EXCEPT
                  !.queue = TrySend(@, live.next, FrameQueueCap, TRUE),
                  !.next = NextLabel(@),
                  !.capPc = "check"]
    /\ UNCHANGED <<pipeVars, prep, gest, palm, pose, xf, boot, cam>>

\* CameraStream::stop, called by the UI thread at a time of its choosing.
LiveStop ==
    /\ live.stage = "on"
    /\ ~live.stop
    /\ live' = [live EXCEPT !.stop = TRUE]
    /\ UNCHANGED <<pipeVars, prep, gest, palm, pose, xf, boot, cam>>

\* recv_latest_frame: let mut frame = frame_rx.recv().ok()?;
LiveRecv ==
    /\ live.wPc = "recv"
    /\ live.queue # <<>>
    /\ live' = [live EXCEPT !.frame = Head(live.queue),
                            !.queue = Tail(@),
                            !.wPc = "drain"]
    /\ UNCHANGED <<pipeVars, prep, gest, palm, pose, xf, boot, cam>>

\* while let Ok(newer) = frame_rx.try_recv() { frame = newer; }
LiveDrainNewer ==
    /\ live.wPc = "drain"
    /\ live.queue # <<>>
    /\ live' = [live EXCEPT !.frame = TakeNewer(@, Head(live.queue)),
                            !.queue = Tail(@)]
    /\ UNCHANGED <<pipeVars, prep, gest, palm, pose, xf, boot, cam>>

\* try_recv finds the queue empty: Some(frame) is returned.
LiveDrainEmpty ==
    /\ live.wPc = "drain"
    /\ live.queue = <<>>
    /\ live' = [live EXCEPT !.wPc = "infer"]
    /\ UNCHANGED <<pipeVars, prep, gest, palm, pose, xf, boot, cam>>

\* the loop body of run_worker_loop: infer, offer the result, receive again.
LiveInfer ==
    /\ live.wPc = "infer"
    /\ live' = [live EXCEPT !.frame = 0, !.wPc = "recv"]
    /\ UNCHANGED <<pipeVars, prep, gest, palm, pose, xf, boot, cam>>

LiveCapture == LiveCapCheck \/ LiveCapGrab \/ LiveCapSend

LiveWorker == LiveRecv \/ LiveDrainNewer \/ LiveDrainEmpty \/ LiveInfer

LiveNext == LiveCapture \/ LiveStop \/ LiveWorker

\* Both threads are scheduled by the operating system: each keeps taking
\* steps while it has one to take.  Nothing is assumed about the UI thread.
SpecLive ==
    LiveInit /\ [][LiveNext]_vars /\ WF_vars(LiveCapture) /\ WF_vars(LiveWorker)

\* C26 as stated: under weak fairness of the capture thread and of the
\* recognizer thread, a recv_latest_frame call that has received a frame
\* eventually returns it, that is, the worker gets from the drain loop to
\* inference.
C26_DrainReturns == (live.wPc = "drain") ~> (live.wPc = "infer")
====
